---- MODULE Spec2Model ----
(***************************************************************************)
(* Model of tg_home_sensors: the recipient store (users, alert_states),     *)
(* the threshold evaluator (AlertManager.determine_state,                  *)
(* AlertState.should_send_alert) and the alert orchestrator                *)
(* (AlertManager.process_reading); the Link Reader (SerialReaderService    *)
(* with its SerialConnection backoff state) and the parser of its lines    *)
(* (parse_sensor_data); the monitoring loop of main.py that ties them      *)
(* together; the chat commands of bot/handlers behind the rate limiter;    *)
(* and the tool API of mcp/server.py over the reading history.             *)
(*                                                                         *)
(* Humidity and thresholds are integers in hundredths of a percent         *)
(* (SensorReading rounds to two decimals), the clock of the alert core is  *)
(* in whole seconds of UTC, time.time() of the handlers and the tools in   *)
(* tenths of a second.                                                     *)
(***************************************************************************)
EXTENDS Integers, Sequences, FiniteSets, TLC

\* ------------------------------------------------------------------ bounds
\* Number of instants of the time line at which an operation may start.
MaxInstant == 4
\* Number of failed connects in a row the runs contain.
MaxAttempts == 7

\* ------------------------------------------------------- program constants
cooldown_seconds == 300
DefaultHumidityMin == 4000
DefaultHumidityMax == 6000
HumidityLowerBound == 0
HumidityUpperBound == 10000
MinBackoffDelay == 1
MaxBackoffDelay == 60

\* --------------------------------------------------------- input universes
ChatIds == {11111, 22222}

\* Instants (seconds) at which the clock is sampled; consecutive pairs are
\* one second below, exactly on and one second above the cooldown.
TimeLine == <<0, 299, 300, 301, 600, 601, 900>>
Instants == {TimeLine[i] : i \in 1..MaxInstant}

\* Readings offered to process_reading, and threshold pairs <<min, max>>
\* offered to create_user and update_user_threshold (valid and invalid ones).
HumidityValues == {2800, 5200, 6500, 7250}
ThresholdInputs == {<<4000, 6000>>, <<3000, 7000>>, <<7000, 6000>>,
                    <<6000, 6000>>, <<-100, 6000>>, <<4000, 10100>>}

\* SQL NULL / Python None: of a text column, and of a timestamp column.
NULL == "NULL"
NullTime == -1
\* Python None for a threshold that is not given.
Unset == -999999

\* Arguments of update_user_settings: thresholds that are given or left out,
\* and pairs that are in order but out of range.
OptionalThresholds ==
    ThresholdInputs \cup {<<Unset, Unset>>, <<Unset, 5000>>, <<4500, Unset>>,
                          <<-100, Unset>>, <<Unset, 10100>>, <<7000, Unset>>}

SettingsFaults == {"none", "read_user", "write", "insert_user", "insert_state"}

ProcessFaults == {"none", "read_user", "convert_user", "read_state",
                  "convert_state", "send_forbidden", "send_error", "write"}
CreateFaults == {"none", "insert_user", "insert_state"}
UpdateFaults == {"none", "read_user", "write"}

VARIABLES
    users,          \* table users: a row per chat_id that has one
    alert_states,   \* table alert_states: a row per chat_id that has one
    now,            \* datetime.now(timezone.utc), in seconds
    call,           \* the last operation and its arguments
    before,         \* the two tables as the last operation found them
    sent,           \* Bot.send_message calls made by the last operation
    logged,         \* exception the last operation logged ("none" if none)
    raised,         \* exception that left the last operation ("none" if none)
    scenario,       \* what was dispatched at each step of the end-to-end run so far
    rejected,       \* threshold pairs of the last operation that the Store refused
    args,           \* arguments of the last evaluator call
    ret,            \* value returned by the last evaluator call
    reader,         \* the SerialReaderService: _serial, connection_state, _latest_reading
    reader_call,    \* the last call on the reader, what it found and what it did
    reader_hist,    \* failed connects in a row, and the last reading that parsed
    loop,           \* monitoring_loop: position, was_connected, reading, users left
    tick,           \* what the current tick of monitoring_loop has done so far
    rate_limit_state, \* _rate_limit_state of rate_limiter.py: user_id -> last accepted time
    time_time,      \* time.time(), in tenths of a second
    sensor_readings,  \* table sensor_readings, in the order of insertion
    request,        \* the last chat command, tool call or parse, and what it found
    response,       \* what the last chat command, tool call or parse answered
    delivered,      \* per recipient: the alert delivered last, when, for which state
    tasks           \* the invocations in progress, each with its position, and those that returned

storeVars == <<users, alert_states, now, call, before, sent, logged, raised, scenario,
               rejected>>
evalVars == <<args, ret>>
readerVars == <<reader, reader_call, reader_hist>>
loopVars == <<loop, tick>>
frontVars == <<rate_limit_state, time_time, sensor_readings, request, response>>

vars == <<storeVars, evalVars, readerVars, loopVars, frontVars, delivered, tasks>>

\* ------------------------------------------------------------------ models
\* User.max_greater_than_min and the Field(ge=0, le=100) constraints.
UserValid(humidity_min, humidity_max) ==
    /\ humidity_min >= HumidityLowerBound /\ humidity_min <= HumidityUpperBound
    /\ humidity_max >= HumidityLowerBound /\ humidity_max <= HumidityUpperBound
    /\ humidity_max > humidity_min

UserRow(humidity_min, humidity_max) ==
    [humidity_min |-> humidity_min, humidity_max |-> humidity_max]

AlertRow(current_state, last_alert_time, last_alert_type) ==
    [current_state |-> current_state,
     last_alert_time |-> last_alert_time,
     last_alert_type |-> last_alert_type]

\* AlertManager.determine_state
DetermineStateLowFirst(humidity, user) ==
    IF humidity < user.humidity_min THEN "low_humidity"
    ELSE IF humidity >= user.humidity_max THEN "high_humidity"
    ELSE "normal"

DetermineState(humidity, user) ==
    IF humidity > user.humidity_max THEN "high_humidity"
    ELSE IF humidity < user.humidity_min THEN "low_humidity"
    ELSE "normal"

\* AlertState.should_send_alert; clock is datetime.now(timezone.utc).
ShouldSendAlertStrict(s, new_state, cooldown, clock) ==
    IF new_state # s.current_state THEN TRUE
    ELSE IF new_state # "normal"
         THEN IF s.last_alert_time = NullTime THEN TRUE
              ELSE clock - s.last_alert_time > cooldown
         ELSE FALSE

ShouldSendAlertNeverAlerted(s, new_state, cooldown, clock) ==
    IF new_state # s.current_state THEN TRUE
    ELSE IF new_state # "normal"
         THEN s.last_alert_time # NullTime /\ clock - s.last_alert_time >= cooldown
         ELSE FALSE

ShouldSendAlertCooldownFirst(s, new_state, cooldown, clock) ==
    IF s.last_alert_time # NullTime /\ clock - s.last_alert_time < cooldown
    THEN FALSE
    ELSE new_state # s.current_state \/ new_state # "normal"

ShouldSendAlert(s, new_state, cooldown, clock) ==
    IF new_state # s.current_state THEN TRUE
    ELSE IF new_state # "normal"
         THEN IF s.last_alert_time = NullTime THEN TRUE
              ELSE clock - s.last_alert_time >= cooldown
         ELSE FALSE

\* ------------------------------------------------------------- collaborators
\* Bot.send_message as called from process_reading: the call either delivers
\* the message or raises (telegram.error.Forbidden, or any other error).
SendMessage(chat_id, kind, fault) ==
    [msg |-> [chat_id |-> chat_id, kind |-> kind,
              delivered |-> fault \notin {"send_forbidden", "send_error"}],
     exc |-> IF fault = "send_forbidden" THEN "Forbidden"
             ELSE IF fault = "send_error" THEN "SendError"
             ELSE "none"]

\* The row written by the UPDATE statements of update_alert_state.
UpdatedAlertRowKeepType(old, new_state, alert_type, clock) ==
    IF new_state = "normal"
    THEN AlertRow(new_state, NullTime, old.last_alert_type)
    ELSE AlertRow(new_state, clock, alert_type)

UpdatedAlertRowStaleTime(old, new_state, alert_type, clock) ==
    IF new_state = "normal"
    THEN AlertRow(new_state, NullTime, NULL)
    ELSE AlertRow(new_state, old.last_alert_time, alert_type)

UpdatedAlertRow(old, new_state, alert_type, clock) ==
    IF new_state = "normal"
    THEN AlertRow(new_state, NullTime, NULL)
    ELSE AlertRow(new_state, clock, alert_type)

\* Exceptions are named after the call that raises them: ReadError (a SELECT),
\* ConversionError (a row that does not convert to its model), Forbidden and
\* SendError (Bot.send_message), WriteError (an INSERT, UPDATE or commit).

\* AlertManager.update_alert_state: one UPDATE ... WHERE chat_id = ? and a
\* commit; a failure of either is logged and re-raised, the table unchanged.
UpdateAlertStateAllRows(rows, chat_id, new_state, alert_type, clock, fault) ==
    IF fault = "write"
    THEN [rows |-> rows, exc |-> "WriteError"]
    ELSE [rows |-> [c \in DOMAIN rows |->
                       UpdatedAlertRow(rows[c], new_state, alert_type, clock)],
          exc |-> "none"]

UpdateAlertState(rows, chat_id, new_state, alert_type, clock, fault) ==
    IF fault = "write"
    THEN [rows |-> rows, exc |-> "WriteError"]
    ELSE [rows |-> [c \in DOMAIN rows |->
                       IF c = chat_id
                       THEN UpdatedAlertRow(rows[c], new_state, alert_type, clock)
                       ELSE rows[c]],
          exc |-> "none"]

\* ---------------------------------------------------------- process_reading
\* One branch of "if should_alert": send the message, then persist the state.
DispatchAlwaysWrites(chat_id, new_state, kind, alert_type, fault) ==
    LET s == SendMessage(chat_id, kind, fault)
        u == UpdateAlertState(alert_states, chat_id, new_state, alert_type, now, fault)
    IN  [alert_states |-> u.rows, sent |-> <<s.msg>>,
         exc |-> IF s.exc # "none" THEN s.exc ELSE u.exc]

DispatchWriteFirst(chat_id, new_state, kind, alert_type, fault) ==
    LET u == UpdateAlertState(alert_states, chat_id, new_state, alert_type, now, fault)
        s == SendMessage(chat_id, kind, fault)
    IN  IF u.exc # "none"
        THEN [alert_states |-> u.rows, sent |-> <<>>, exc |-> u.exc]
        ELSE [alert_states |-> u.rows, sent |-> <<s.msg>>, exc |-> s.exc]

Dispatch(chat_id, new_state, kind, alert_type, fault) ==
    LET s == SendMessage(chat_id, kind, fault)
    IN  IF s.exc # "none"
        THEN [alert_states |-> alert_states, sent |-> <<s.msg>>, exc |-> s.exc]
        ELSE LET u == UpdateAlertState(alert_states, chat_id, new_state,
                                       alert_type, now, fault)
             IN  [alert_states |-> u.rows, sent |-> <<s.msg>>, exc |-> u.exc]

\* The body of the try block of process_reading.
ProcessReadingBody(chat_id, humidity, fault) ==
    LET Return(exc) == [alert_states |-> alert_states, sent |-> <<>>, exc |-> exc]
    IN  IF fault = "read_user" THEN Return("ReadError")
        ELSE IF chat_id \notin DOMAIN users THEN Return("none")
        ELSE IF fault = "convert_user" THEN Return("ConversionError")
        ELSE IF fault = "read_state" THEN Return("ReadError")
        ELSE IF chat_id \notin DOMAIN alert_states THEN Return("none")
        ELSE IF fault = "convert_state" THEN Return("ConversionError")
        ELSE
          LET user == users[chat_id]
              alert_state == alert_states[chat_id]
              new_state == DetermineState(humidity, user)
              should_alert == ShouldSendAlert(alert_state, new_state,
                                              cooldown_seconds, now)
          IN  IF ~should_alert THEN Return("none")
              ELSE IF new_state = "high_humidity"
                   THEN Dispatch(chat_id, new_state, "high_alert", "high", fault)
              ELSE IF new_state = "low_humidity"
                   THEN Dispatch(chat_id, new_state, "low_alert", "low", fault)
              ELSE IF new_state = "normal" /\ alert_state.current_state # "normal"
                   THEN Dispatch(chat_id, new_state, "recovery", NULL, fault)
              ELSE Return("none")

\* "except Exception as e: logger.error(...)": the exception is logged and
\* nothing leaves process_reading.
ExceptHandlerReraise(exc) == [logged |-> exc, raised |-> exc]

ExceptHandler(exc) == [logged |-> exc, raised |-> "none"]

Call(op, chat_id, humidity) == [op |-> op, chat_id |-> chat_id, humidity |-> humidity]
Tables == [users |-> users, alert_states |-> alert_states]

\* The end-to-end run of one recipient with thresholds (40, 60): 72.5 from
\* normal, 72.5 less than 300 s later, 72.5 at least 301 s after the alert,
\* then 52.0, every call without a failure. ScenarioStep(k, ...) holds when the
\* call is step k+1 of that run.
ScenarioChat == 11111

ScenarioStep(k, chat_id, humidity, fault) ==
    /\ chat_id = ScenarioChat /\ fault = "none"
    /\ chat_id \in DOMAIN users /\ chat_id \in DOMAIN alert_states
    /\ LET row == alert_states[chat_id]
       IN  \/ /\ k = 0 /\ humidity = 7250
              /\ users[chat_id] = UserRow(DefaultHumidityMin, DefaultHumidityMax)
              /\ row.current_state = "normal"
           \/ /\ k = 1 /\ humidity = 7250
              /\ row.last_alert_time # NullTime /\ now - row.last_alert_time < 300
           \/ /\ k = 2 /\ humidity = 7250
              /\ row.last_alert_time # NullTime /\ now - row.last_alert_time >= 301
           \/ /\ k = 3 /\ humidity = 5200

Observed(msgs) == IF msgs = <<>> THEN "nothing" ELSE msgs[1].kind

ScenarioAfter(chat_id, humidity, fault, msgs) ==
    IF chat_id # ScenarioChat THEN scenario
    ELSE IF ScenarioStep(Len(scenario), chat_id, humidity, fault)
         THEN Append(scenario, Observed(msgs))
    ELSE IF ScenarioStep(0, chat_id, humidity, fault)
         THEN <<Observed(msgs)>>
    ELSE <<>>

\* process_reading as its caller sees it: what it does to the Store and what it
\* sends.
ProcessReadingCall(chat_id, humidity, fault) ==
    LET r == ProcessReadingBody(chat_id, humidity, fault)
        e == ExceptHandler(r.exc)
    IN  /\ alert_states' = r.alert_states
        /\ scenario' = ScenarioAfter(chat_id, humidity, fault, r.sent)
        /\ sent' = r.sent
        /\ logged' = e.logged
        /\ raised' = e.raised
        /\ call' = Call("process_reading", chat_id, humidity)
        /\ before' = Tables
        /\ rejected' = <<>>
        /\ UNCHANGED <<users, now>>

ProcessReading(chat_id, humidity, fault) ==
    /\ ProcessReadingCall(chat_id, humidity, fault)
    /\ UNCHANGED <<evalVars, frontVars, delivered, tasks, readerVars, loopVars>>

\* ------------------------------------------------------ UserSettingsService
\* INSERT INTO <table> of a row whose primary key is not in the table.
InsertRow(rows, chat_id, row) ==
    [c \in DOMAIN rows \cup {chat_id} |-> IF c = chat_id THEN row ELSE rows[c]]

\* The CHECK constraints of table users: an INSERT or UPDATE that breaks one
\* fails with an integrity error and changes nothing.
StoreAccepts(humidity_min, humidity_max) ==
    /\ humidity_min >= 0 /\ humidity_min <= 10000
    /\ humidity_max >= 0 /\ humidity_max <= 10000
    /\ humidity_min < humidity_max

\* What a write of the pair to table users leaves in rejected.
Rejected(humidity_min, humidity_max) ==
    IF StoreAccepts(humidity_min, humidity_max) THEN <<>>
    ELSE <<<<humidity_min, humidity_max>>>>

\* create_user: validate, INSERT INTO users, INSERT INTO alert_states; every
\* failure is logged and re-raised.
CreateUserCall(chat_id, humidity_min, humidity_max, fault) ==
    /\ sent' = <<>>
    /\ call' = Call("create_user", chat_id, 0)
    /\ before' = Tables
    /\ UNCHANGED <<now, scenario>>
    /\ rejected' = IF UserValid(humidity_min, humidity_max)
                   THEN Rejected(humidity_min, humidity_max) ELSE <<>>
    /\ IF ~UserValid(humidity_min, humidity_max)
       THEN raised' = "ValidationError" /\ UNCHANGED <<users, alert_states>>
       ELSE IF fault = "insert_user"
       THEN raised' = "WriteError" /\ UNCHANGED <<users, alert_states>>
       ELSE IF chat_id \in DOMAIN users
       THEN raised' = "IntegrityError" /\ UNCHANGED <<users, alert_states>>
       ELSE /\ users' = InsertRow(users, chat_id, UserRow(humidity_min, humidity_max))
            /\ IF fault = "insert_state"
               THEN raised' = "WriteError" /\ UNCHANGED alert_states
               ELSE IF chat_id \in DOMAIN alert_states
               THEN raised' = "IntegrityError" /\ UNCHANGED alert_states
               ELSE /\ alert_states' = InsertRow(alert_states, chat_id,
                                                   AlertRow("normal", NullTime, NULL))
                    /\ raised' = "none"
    /\ logged' = raised'

\* create_user called on its own, as the tests of the service and
\* create_or_update_user call it.
CreateUser(chat_id, humidity_min, humidity_max, fault) ==
    /\ CreateUserCall(chat_id, humidity_min, humidity_max, fault)
    /\ UNCHANGED <<evalVars, readerVars, loopVars, frontVars, delivered, tasks>>

\* float("nan"): a threshold that is a float and not a number. The Store
\* refuses it: PostgreSQL orders it above every number, so a CHECK constraint
\* fails; SQLite binds it as NULL into a NOT NULL column.
NaN == 888888

\* The comparisons of Python floats: every comparison with NaN is false.
Lt(a, b) == a # NaN /\ b # NaN /\ a < b
Gt(a, b) == a # NaN /\ b # NaN /\ a > b
Le(a, b) == a # NaN /\ b # NaN /\ a <= b
Ge(a, b) == a # NaN /\ b # NaN /\ a >= b

\* The three checks at the head of update_user_threshold.
ThresholdsPass(humidity_min, humidity_max) ==
    /\ ~(Lt(humidity_min, HumidityLowerBound) \/ Gt(humidity_min, HumidityUpperBound))
    /\ ~(Lt(humidity_max, HumidityLowerBound) \/ Gt(humidity_max, HumidityUpperBound))
    /\ ~Ge(humidity_min, humidity_max)

\* update_user_threshold: validate (ValueError, not logged), get_user,
\* UPDATE users (failures, a refusal by the Store included, logged and
\* re-raised).
UpdateUserThresholdCall(chat_id, humidity_min, humidity_max, fault) ==
    /\ sent' = <<>>
    /\ call' = Call("update_user_threshold", chat_id, 0)
    /\ before' = Tables
    /\ UNCHANGED <<alert_states, now>>
    /\ rejected' = IF /\ ThresholdsPass(humidity_min, humidity_max)
                      /\ fault \notin {"read_user", "write"}
                      /\ chat_id \in DOMAIN users
                   THEN Rejected(humidity_min, humidity_max) ELSE <<>>
    /\ IF ~ThresholdsPass(humidity_min, humidity_max)
       THEN raised' = "ValueError" /\ logged' = "none" /\ UNCHANGED users
       ELSE IF fault = "read_user"
       THEN raised' = "ReadError" /\ logged' = "ReadError" /\ UNCHANGED users
       ELSE IF chat_id \notin DOMAIN users
       THEN raised' = "ValueError" /\ logged' = "none" /\ UNCHANGED users
       ELSE IF fault = "write"
       THEN raised' = "WriteError" /\ logged' = "WriteError" /\ UNCHANGED users
       ELSE IF ~StoreAccepts(humidity_min, humidity_max)
       THEN raised' = "IntegrityError" /\ logged' = "IntegrityError" /\ UNCHANGED users
       ELSE /\ users' = [users EXCEPT ![chat_id] = UserRow(humidity_min, humidity_max)]
            /\ raised' = "none" /\ logged' = "none"
    /\ scenario' = IF chat_id = ScenarioChat /\ users' # users THEN <<>> ELSE scenario

\* update_user_threshold called on its own.
UpdateUserThreshold(chat_id, humidity_min, humidity_max, fault) ==
    /\ UpdateUserThresholdCall(chat_id, humidity_min, humidity_max, fault)
    /\ UNCHANGED <<evalVars, readerVars, loopVars, frontVars, delivered, tasks>>

\* update_user_settings: get_user, overwrite the thresholds that are given
\* (Unset stands for None), check humidity_max > humidity_min (ValueError, not
\* logged), UPDATE users (failures logged and re-raised).
UpdateUserSettings(chat_id, humidity_min, humidity_max, fault) ==
    /\ sent' = <<>>
    /\ call' = Call("update_user_settings", chat_id, 0)
    /\ before' = Tables
    /\ UNCHANGED <<alert_states, now, evalVars, readerVars, loopVars, frontVars, delivered, tasks>>
    /\ IF fault = "read_user"
       THEN /\ raised' = "ReadError" /\ logged' = "ReadError"
            /\ rejected' = <<>> /\ UNCHANGED users
       ELSE IF chat_id \notin DOMAIN users
       THEN /\ raised' = "ValueError" /\ logged' = "none"
            /\ rejected' = <<>> /\ UNCHANGED users
       ELSE
         LET user_min == IF humidity_min # Unset THEN humidity_min
                         ELSE users[chat_id].humidity_min
             user_max == IF humidity_max # Unset THEN humidity_max
                         ELSE users[chat_id].humidity_max
         IN  IF user_max <= user_min
             THEN /\ raised' = "ValueError" /\ logged' = "none"
                  /\ rejected' = <<>> /\ UNCHANGED users
             ELSE /\ rejected' = IF fault = "write" THEN <<>>
                                  ELSE Rejected(user_min, user_max)
                  /\ IF fault = "write"
                     THEN /\ raised' = "WriteError" /\ logged' = "WriteError"
                          /\ UNCHANGED users
                     ELSE IF ~StoreAccepts(user_min, user_max)
                     THEN /\ raised' = "IntegrityError" /\ logged' = "IntegrityError"
                          /\ UNCHANGED users
                     ELSE /\ users' = [users EXCEPT
                                          ![chat_id] = UserRow(user_min, user_max)]
                          /\ raised' = "none" /\ logged' = "none"
    /\ scenario' = IF chat_id = ScenarioChat /\ users' # users THEN <<>> ELSE scenario

\* create_or_update_user: get_user, then create_user when there is no row and
\* update_user_settings when there is one.
CreateOrUpdateUser(chat_id, humidity_min, humidity_max, fault) ==
    IF fault = "read_user"
    THEN /\ raised' = "ReadError" /\ logged' = "ReadError"
         /\ sent' = <<>> /\ rejected' = <<>>
         /\ call' = Call("create_or_update_user", chat_id, 0)
         /\ before' = Tables
         /\ UNCHANGED <<users, alert_states, now, scenario, evalVars, readerVars,
                        loopVars, frontVars, delivered, tasks>>
    ELSE IF chat_id \notin DOMAIN users
    THEN CreateUser(chat_id, humidity_min, humidity_max, fault)
    ELSE UpdateUserSettings(chat_id, humidity_min, humidity_max, fault)

\* Time passes between operations.
AdvanceClock ==
    /\ \E t \in Instants : t > now /\ now' = t
    /\ call' = Call("advance_clock", 0, 0)
    /\ before' = Tables
    /\ sent' = <<>>
    /\ logged' = "none"
    /\ raised' = "none"
    /\ rejected' = <<>>
    /\ UNCHANGED <<users, alert_states, scenario, evalVars, readerVars, loopVars,
                   frontVars, delivered, tasks>>

\* ---------------------------------------------------------------- evaluator
\* Direct calls of the two pure functions of the threshold evaluator, as the
\* unit tests make them: any humidity against any pair of thresholds (also
\* pairs that are not min < max), any AlertState against any target state.
States == {"normal", "high_humidity", "low_humidity"}
EvalHumidity == {2800, 3000, 4000, 5200, 6000, 6500, 7000, 7250}
EvalThresholds == {<<4000, 6000>>, <<3000, 7000>>, <<6000, 4000>>, <<5200, 5200>>}
EvalCooldowns == {1, cooldown_seconds}

Args(fn, humidity, thresholds, current_state, last_alert_time, new_state, cooldown, clock) ==
    [fn |-> fn, humidity |-> humidity,
     humidity_min |-> thresholds[1], humidity_max |-> thresholds[2],
     current_state |-> current_state, last_alert_time |-> last_alert_time,
     new_state |-> new_state, cooldown |-> cooldown, clock |-> clock]

NoArgs == Args("none", 0, <<0, 0>>, "normal", NullTime, "normal", 0, 0)
NoRet == [fn |-> "none", state |-> "none", flag |-> FALSE]

DetermineStateArgs ==
    {Args("determine_state", h, t, "normal", NullTime, "normal", 0, 0) :
        h \in EvalHumidity, t \in EvalThresholds}

ShouldSendAlertArgs ==
    {Args("should_send_alert", 0, <<0, 0>>, x[1], x[2], x[3], x[4], x[5]) :
        x \in States \X (Instants \cup {NullTime}) \X States \X EvalCooldowns
              \X Instants}

CallDetermineState ==
    /\ args.fn = "determine_state"
    /\ ret' = [fn |-> "determine_state",
               state |-> DetermineState(args.humidity,
                                        UserRow(args.humidity_min, args.humidity_max)),
               flag |-> FALSE]
    /\ UNCHANGED <<storeVars, args, frontVars, delivered, tasks, readerVars, loopVars>>

CallShouldSendAlert ==
    /\ args.fn = "should_send_alert"
    /\ ret' = [fn |-> "should_send_alert",
               state |-> "none",
               flag |-> ShouldSendAlert(
                           AlertRow(args.current_state, args.last_alert_time, NULL),
                           args.new_state, args.cooldown, args.clock)]
    /\ UNCHANGED <<storeVars, args, frontVars, delivered, tasks, readerVars, loopVars>>

\* -------------------------------------------------------------- Link Reader
\* SerialReaderService. Its state is the handle _serial ("None", or "open": a
\* serial.Serial whose is_open is true; pyserial clears is_open only in
\* close()), the SerialConnection connection_state and the cached
\* _latest_reading (<<>> for None, <<humidity>> for a SensorReading).
\* backoff_delay is in seconds.
NewReader ==
    [serial |-> "None",
     connection_state |-> [is_connected |-> FALSE, reconnect_attempts |-> 0,
                           backoff_delay |-> MinBackoffDelay],
     latest_reading |-> <<>>]

Min2(a, b) == IF a <= b THEN a ELSE b
Max2(a, b) == IF a >= b THEN a ELSE b

\* SerialConnection.calculate_backoff
CalculateBackoffLinear(reconnect_attempts) ==
    Max2(Min2(2 * reconnect_attempts, MaxBackoffDelay), MinBackoffDelay)

CalculateBackoff(reconnect_attempts) ==
    Max2(Min2(2 ^ reconnect_attempts, MaxBackoffDelay), MinBackoffDelay)

\* SerialConnection.reset_backoff
ResetBackoff(cs) ==
    [cs EXCEPT !.reconnect_attempts = 0, !.backoff_delay = 1, !.is_connected = TRUE]

\* SerialConnection.increment_backoff
IncrementBackoff(cs) ==
    LET attempts == cs.reconnect_attempts + 1
    IN  [cs EXCEPT !.reconnect_attempts = attempts,
                   !.backoff_delay = CalculateBackoff(attempts),
                   !.is_connected = FALSE]

\* SerialReaderService.is_connected
IsConnected(self) == self.serial = "open"

\* What a call on the reader gives back: the reader after the call, the
\* boolean or the reading it returned, the exception that left it, and the
\* number of times it closed the Link.
Outcome(self, ok, reading, exc, closes) ==
    [self |-> self, ok |-> ok, reading |-> reading, raised |-> exc, closes |-> closes]

\* SerialReaderService.connect; opens tells whether serial.Serial(...) returns
\* a handle or raises.
ConnectReraise(self, opens) ==
    IF opens
    THEN Outcome([self EXCEPT !.serial = "open",
                              !.connection_state = ResetBackoff(@)],
                 TRUE, <<>>, "none", 0)
    ELSE Outcome([self EXCEPT !.connection_state = IncrementBackoff(@)],
                 FALSE, <<>>, "OpenError", 0)

Connect(self, opens) ==
    IF opens
    THEN Outcome([self EXCEPT !.serial = "open",
                              !.connection_state = ResetBackoff(@)],
                 TRUE, <<>>, "none", 0)
    ELSE Outcome([self EXCEPT !.connection_state = IncrementBackoff(@)],
                 FALSE, <<>>, "none", 0)

\* SerialReaderService.disconnect
DisconnectAlwaysCloses(self) ==
    Outcome([self EXCEPT !.serial = "None", !.connection_state.is_connected = FALSE],
            FALSE, <<>>, "none", 1)

Disconnect(self) ==
    IF self.serial = "open"
    THEN Outcome([self EXCEPT !.serial = "None",
                              !.connection_state.is_connected = FALSE],
                 FALSE, <<>>, "none", 1)
    ELSE Outcome(self, FALSE, <<>>, "none", 0)

\* What one readline() on the Link gives: an I/O exception, no bytes before the
\* timeout, a line that is not telemetry, or a line of telemetry.
ReaderHumidity == {5200, 7250}
LinkRead(kind, humidity) == [kind |-> kind, humidity |-> humidity]
LinkReads ==
    {LinkRead("raise", 0), LinkRead("empty", 0), LinkRead("garbage", 0)}
        \cup {LinkRead("telemetry", h) : h \in ReaderHumidity}

\* parse_sensor_data, as far as the reader depends on it: a SensorReading for
\* a line of telemetry, None for any other line.
ParseSensorData(line) ==
    IF line.kind = "telemetry" THEN <<line.humidity>> ELSE <<>>

\* SerialReaderService.read_sensor_data
ReadSensorDataForgetful(self, line) ==
    IF self.serial # "open" THEN Outcome(self, FALSE, <<>>, "none", 0)
    ELSE IF line.kind = "raise"
    THEN Outcome([self EXCEPT !.connection_state.is_connected = FALSE,
                              !.latest_reading = <<>>],
                 FALSE, <<>>, "none", 0)
    ELSE LET reading == ParseSensorData(line)
         IN  Outcome([self EXCEPT !.latest_reading = reading,
                                  !.connection_state.is_connected = TRUE],
                     reading # <<>>, reading, "none", 0)

ReadSensorData(self, line) ==
    IF self.serial # "open" THEN Outcome(self, FALSE, <<>>, "none", 0)
    ELSE IF line.kind = "raise"
    THEN Outcome([self EXCEPT !.connection_state.is_connected = FALSE],
                 FALSE, <<>>, "none", 0)
    ELSE IF line.kind = "empty" THEN Outcome(self, FALSE, <<>>, "none", 0)
    ELSE LET reading == ParseSensorData(line)
         IN  IF reading # <<>>
             THEN Outcome([self EXCEPT !.latest_reading = reading,
                                       !.connection_state.is_connected = TRUE],
                          TRUE, reading, "none", 0)
             ELSE Outcome(self, FALSE, <<>>, "none", 0)

\* The calls on a reader on its own, as the unit tests make them, in any order.
ReaderCall(op, input, o) ==
    [op |-> op, prev |-> reader_call.op, input |-> input, before |-> reader,
     ok |-> o.ok, reading |-> o.reading, raised |-> o.raised, closes |-> o.closes]

NoReaderCall ==
    [op |-> "none", prev |-> "none", input |-> LinkRead("none", 0), before |-> NewReader,
     ok |-> FALSE, reading |-> <<>>, raised |-> "none", closes |-> 0]

\* failures: the failed opens in a row since creation or the last open that
\* succeeded; parsed: the last line of telemetry a readline() returned.
NoReaderHist == [failures |-> 0, parsed |-> <<>>]

CallConnect(opens) ==
    LET o == Connect(reader, opens)
    IN  /\ opens \/ reader.connection_state.reconnect_attempts < MaxAttempts
        /\ reader' = o.self
        /\ reader_call' = ReaderCall("connect",
                                     LinkRead(IF opens THEN "opens" ELSE "fails", 0), o)
        /\ reader_hist' = [reader_hist EXCEPT
                              !.failures = IF opens THEN 0 ELSE @ + 1]
        /\ UNCHANGED <<storeVars, evalVars, frontVars, delivered, tasks, loopVars>>

CallDisconnect ==
    LET o == Disconnect(reader)
    IN  /\ reader' = o.self
        /\ reader_call' = ReaderCall("disconnect", LinkRead("none", 0), o)
        /\ UNCHANGED <<reader_hist, storeVars, evalVars, frontVars, delivered, tasks, loopVars>>

CallReadSensorData(line) ==
    LET o == ReadSensorData(reader, line)
    IN  /\ reader' = o.self
        /\ reader_call' = ReaderCall("read_sensor_data", line, o)
        /\ reader_hist' = [reader_hist EXCEPT
                              !.parsed = IF reader.serial = "open"
                                            /\ line.kind = "telemetry"
                                         THEN <<line.humidity>> ELSE @]
        /\ UNCHANGED <<storeVars, evalVars, frontVars, delivered, tasks, loopVars>>

\* ---------------------------------------------------------- Monitoring Loop
\* main() and monitoring_loop. loop.pc is the place the loop is at:
\*   "boot"     main before its connect() (line 153)
\*   "start"    the task is created, line 64 not yet run
\*   "read"     top of "while True", before read_sensor_data (line 69)
\*   "dispatch" after the connection checks (line 91)
\*   "fanout"   in "for user in users", before a process_reading (line 97)
\*   "sleep"    in asyncio.sleep(1) (line 114)
\*   "paused"   in asyncio.sleep(5) of "except Exception" (line 121)
\*   "exited"   the task has returned
\*   "stopped"  main's finally block is through
\* loop.queue holds the users the for loop has still to visit, loop.broadcasts
\* the last two calls of notify_all_users. tick records what the current
\* iteration of the while loop has done: the connectivity edge its read met,
\* its calls of notify_all_users, the users table and the list get_all_users
\* returned, the recipients process_reading was called for, those for which
\* it logged an exception, and the exception that ended the iteration.
NewLoop ==
    [pc |-> "boot", was_connected |-> FALSE, reading |-> <<>>, queue |-> <<>>,
     cancelled |-> FALSE, broadcasts |-> <<>>]

NewTick ==
    [edge |-> "none", broadcasts |-> <<>>, registered |-> {}, listed |-> <<>>,
     processed |-> <<>>, failed |-> <<>>, exc |-> "none", resumed |-> FALSE]

RECURSIVE Ascending(_)
Ascending(S) ==
    IF S = {} THEN <<>>
    ELSE LET m == CHOOSE x \in S : \A y \in S : x <= y
         IN  <<m>> \o Ascending(S \ {m})

\* UserSettingsService.get_all_users: SELECT * FROM users, or an exception
\* that is logged and re-raised.
GetAllUsers(rows, fault) ==
    IF fault = "list_users"
    THEN [users |-> <<>>, exc |-> "ListError"]
    ELSE [users |-> Ascending(DOMAIN rows), exc |-> "none"]

\* notify_all_users: the message goes to every user get_all_users returns; a
\* failure of get_all_users or of a send_message is logged, nothing is raised.
NotifyAllUsers(kind, rows, fault) ==
    [kind |-> kind, to |-> GetAllUsers(rows, fault).users]

\* The last two broadcasts of the run, oldest first.
LastTwo(seq) == IF Len(seq) <= 2 THEN seq ELSE SubSeq(seq, Len(seq) - 1, Len(seq))

Broadcast(l, t, kind, fault) ==
    [loop |-> [l EXCEPT !.was_connected = (kind = "restored"),
                        !.broadcasts = LastTwo(Append(@, kind))],
     tick |-> [t EXCEPT !.broadcasts = Append(@, NotifyAllUsers(kind, users, fault))]]

\* "except Exception as e" of monitoring_loop (lines 119-121).
LoopExceptHandlerBreak(l) == [l EXCEPT !.pc = "exited", !.queue = <<>>]

LoopExceptHandler(l) == [l EXCEPT !.pc = "paused", !.queue = <<>>]

\* One turn of "for user in users: await process_reading(reading, chat_id)":
\* exc is what process_reading raised.
FanOutNextFirstOnly(l, exc) ==
    IF exc # "none" THEN LoopExceptHandler(l)
    ELSE [l EXCEPT !.queue = <<>>, !.pc = "sleep"]

FanOutNext(l, exc) ==
    IF exc # "none" THEN LoopExceptHandler(l)
    ELSE [l EXCEPT !.queue = Tail(@),
                   !.pc = IF Len(l.queue) = 1 THEN "sleep" ELSE "fanout"]

ListFaults == {"none", "list_users"}
LoopProcessFaults == {"none", "read_user", "send_error", "write"}
LoopPositions == {"start", "read", "dispatch", "fanout", "sleep", "paused"}

\* main, line 153: the first connect().
MainConnect(opens) ==
    /\ loop.pc = "boot"
    /\ reader' = Connect(reader, opens).self
    /\ loop' = [loop EXCEPT !.pc = "start"]
    /\ UNCHANGED <<tick, reader_call, reader_hist, storeVars, evalVars, frontVars, delivered, tasks>>

\* monitoring_loop, line 64.
LoopStart ==
    /\ loop.pc = "start"
    /\ loop' = [loop EXCEPT !.pc = "read", !.was_connected = IsConnected(reader)]
    /\ UNCHANGED <<tick, readerVars, storeVars, evalVars, frontVars, delivered, tasks>>

\* Lines 69-89: read once, then compare is_connected() with was_connected.
\* tick.edge is "lost" when the loop took the Link for connected and this read
\* raised or found the Link closed.
TickRead(line, fault) ==
    LET o == ReadSensorData(reader, line)
        is_connected == IsConnected(o.self)
        l == [loop EXCEPT !.pc = "dispatch", !.reading = o.reading]
        t == [tick EXCEPT
                 !.edge = IF loop.was_connected
                             /\ (~is_connected
                                 \/ (reader.serial = "open" /\ line.kind = "raise"))
                          THEN "lost"
                          ELSE IF is_connected /\ ~loop.was_connected THEN "restored"
                          ELSE "none"]
        b == IF is_connected /\ ~loop.was_connected
             THEN Broadcast(l, t, "restored", fault)
             ELSE IF ~is_connected /\ loop.was_connected
             THEN Broadcast(l, t, "lost", fault)
             ELSE [loop |-> l, tick |-> t]
    IN  /\ loop.pc = "read"
        /\ reader' = o.self
        /\ loop' = b.loop
        /\ tick' = b.tick
        /\ UNCHANGED <<reader_call, reader_hist, storeVars, evalVars, frontVars, delivered, tasks>>

\* Lines 91-93: a reading was produced, the users are fetched.
TickListUsers(fault) ==
    LET g == GetAllUsers(users, fault)
    IN  /\ loop.pc = "dispatch"
        /\ loop.reading # <<>>
        /\ loop' = IF g.exc # "none" THEN LoopExceptHandler(loop)
                   ELSE [loop EXCEPT !.queue = g.users,
                                     !.pc = IF g.users = <<>> THEN "sleep" ELSE "fanout"]
        /\ tick' = [tick EXCEPT !.registered = DOMAIN users, !.listed = g.users,
                                !.exc = g.exc]
        /\ UNCHANGED <<readerVars, storeVars, evalVars, frontVars, delivered, tasks>>

\* Line 97, for the next user of the for loop.
TickProcess(fault) ==
    /\ loop.pc = "fanout"
    /\ ProcessReadingCall(Head(loop.queue), loop.reading[1], fault)
    /\ loop' = FanOutNext(loop, raised')
    /\ tick' = [tick EXCEPT !.processed = Append(@, Head(loop.queue)),
                            !.failed = IF logged' # "none"
                                       THEN Append(@, Head(loop.queue)) ELSE @,
                            !.exc = raised']
    /\ UNCHANGED <<readerVars, evalVars, frontVars, delivered, tasks>>

\* Lines 98-111: no reading; connect again if the reader is not connected.
TickReconnect(opens, fault) ==
    LET o == Connect(reader, opens)
        l == [loop EXCEPT !.pc = "sleep"]
        b == IF o.ok /\ ~loop.was_connected
             THEN Broadcast(l, tick, "restored", fault)
             ELSE [loop |-> l, tick |-> tick]
    IN  /\ loop.pc = "dispatch"
        /\ loop.reading = <<>>
        /\ IF IsConnected(reader)
           THEN loop' = l /\ UNCHANGED <<tick, reader>>
           ELSE /\ opens \/ reader.connection_state.reconnect_attempts < MaxAttempts
                /\ reader' = o.self
                /\ loop' = b.loop
                /\ tick' = b.tick
        /\ UNCHANGED <<reader_call, reader_hist, storeVars, evalVars, frontVars, delivered, tasks>>

\* Line 114: asyncio.sleep(1) returns and the next iteration starts.
TickSleep ==
    /\ loop.pc = "sleep"
    /\ loop' = [loop EXCEPT !.pc = "read", !.reading = <<>>]
    /\ tick' = NewTick
    /\ UNCHANGED <<readerVars, storeVars, evalVars, frontVars, delivered, tasks>>

\* Line 121: asyncio.sleep(5) returns and the next iteration starts.
TickResume ==
    /\ loop.pc = "paused"
    /\ loop' = [loop EXCEPT !.pc = "read", !.reading = <<>>]
    /\ tick' = [NewTick EXCEPT !.resumed = TRUE]
    /\ UNCHANGED <<readerVars, storeVars, evalVars, frontVars, delivered, tasks>>

\* main, line 205: monitoring_task.cancel(). CancelledError is raised in the
\* await the loop is at; lines 116-118 break out of the loop (in the sleep of
\* line 121 the error leaves the function directly).
Cancel ==
    /\ loop.pc \in LoopPositions
    /\ loop' = [loop EXCEPT !.pc = "exited", !.cancelled = TRUE, !.queue = <<>>]
    /\ UNCHANGED <<tick, readerVars, storeVars, evalVars, frontVars, delivered, tasks>>

\* main, lines 210-214, after the task has returned: app.stop() and
\* app.shutdown(), then disconnect(); when stopping the application raises,
\* disconnect() is not reached.
MainCleanup(stops) ==
    /\ loop.pc = "exited"
    /\ loop' = [loop EXCEPT !.pc = "stopped"]
    /\ reader' = IF stops THEN Disconnect(reader).self ELSE reader
    /\ UNCHANGED <<tick, reader_call, reader_hist, storeVars, evalVars, frontVars, delivered, tasks>>

\* ------------------------------------------------------------ chat commands
\* The handlers of bot/handlers and the rate_limit decorator of
\* bot/utils/rate_limiter.py. Every handler is one step: python-telegram-bot
\* hands the updates to the handlers one at a time. time.time() is kept in
\* tenths of a second, so that an elapsed time may fall between two seconds.

\* @rate_limit(seconds=3), in tenths of a second.
RateLimitSeconds == 30

\* The latest instant of a run, and the times that pass between two commands.
MaxTime == 40
Delays == {5, 25}

\* context.args of a command: nothing, a text float() refuses, or a number
\* (float() also reads "nan").
Arg(kind, value) == [kind |-> kind, value |-> value]
CommandValues == {-100, 3500, 6000, 7000, 10100, NaN}
CommandArgs == {Arg("missing", 0), Arg("text", 0)} \cup {Arg("number", v) : v \in CommandValues}
NoArg == Arg("missing", 0)

\* What a handler answers with reply_text: which message, the seconds to wait
\* (of the rate limiter's message) and the thresholds it shows.
Reply(kind, wait, thresholds) == [kind |-> kind, wait |-> wait, thresholds |-> thresholds]

\* The last command or tool call: who asked what, when, what the rate limiter
\* held then, and which operation of the Store was going to fail.
Request(op, chat_id, arg, fault) ==
    [op |-> op, chat_id |-> chat_id, arg |-> arg, fault |-> fault,
     limiter |-> rate_limit_state, at |-> time_time]
NoRequest == Request("none", 0, NoArg, "none")
NoResponse == Reply("none", 0, <<>>)

\* The handler makes no call of a service that writes to the Store: the tables
\* stay as it found them.
StoreUntouched ==
    /\ call' = Call("none", 0, 0)
    /\ before' = Tables
    /\ sent' = <<>>
    /\ logged' = "none"
    /\ raised' = "none"
    /\ rejected' = <<>>
    /\ UNCHANGED <<users, alert_states, now, scenario>>

\* wrapper of rate_limit: "if user_id in _rate_limit_state" and
\* "elapsed < seconds"; remaining = int(seconds - elapsed) + 1.
Throttled(user_id) ==
    /\ user_id \in DOMAIN rate_limit_state
    /\ time_time - rate_limit_state[user_id] < RateLimitSeconds

Remaining(user_id) ==
    ((RateLimitSeconds - (time_time - rate_limit_state[user_id])) \div 10) + 1

\* "_rate_limit_state[user_id] = current_time".
Accepted(user_id) ==
    [u \in DOMAIN rate_limit_state \cup {user_id} |->
        IF u = user_id THEN time_time ELSE rate_limit_state[u]]

\* A handler that is not decorated runs its body on every invocation.
Undecorated(chat_id, Body) ==
    /\ Body
    /\ UNCHANGED rate_limit_state

\* (a wrapper that records every invocation, throttled or not)
RateLimitRefreshing(chat_id, Body) ==
    IF Throttled(chat_id)
    THEN /\ response' = Reply("wait", Remaining(chat_id), <<>>)
         /\ rate_limit_state' = Accepted(chat_id)
         /\ StoreUntouched
    ELSE /\ rate_limit_state' = Accepted(chat_id)
         /\ Body

\* A handler decorated with @rate_limit(seconds=3): the body runs unless the
\* caller is throttled.
RateLimit(chat_id, Body) ==
    IF Throttled(chat_id)
    THEN /\ response' = Reply("wait", Remaining(chat_id), <<>>)
         /\ UNCHANGED rate_limit_state
         /\ StoreUntouched
    ELSE /\ rate_limit_state' = Accepted(chat_id)
         /\ Body

\* What every command leaves alone.
CommandFrame == UNCHANGED <<time_time, sensor_readings, evalVars, readerVars, loopVars, delivered, tasks>>

\* The Store fails in the handler's own get_user, or inside the service call
\* the handler makes.
StartFaults == {"none", "get_user", "insert_user", "insert_state"}
ReadFaults == {"none", "get_user"}
SetFaults == {"none", "get_user", "read_user", "write"}

ThresholdsOf(chat_id) == <<users[chat_id].humidity_min, users[chat_id].humidity_max>>

\* start_handler that gives a registered recipient the default thresholds
\* again.
StartBodyResets(chat_id, fault) ==
    IF fault = "get_user"
    THEN response' = Reply("init_failed", 0, <<>>) /\ StoreUntouched
    ELSE IF chat_id \in DOMAIN users
    THEN /\ UpdateUserThresholdCall(chat_id, DefaultHumidityMin, DefaultHumidityMax, "none")
         /\ response' = Reply("welcome", 0, <<DefaultHumidityMin, DefaultHumidityMax>>)
    ELSE /\ CreateUserCall(chat_id, DefaultHumidityMin, DefaultHumidityMax, fault)
         /\ response' = IF raised' = "none"
                        THEN Reply("welcome", 0, <<DefaultHumidityMin, DefaultHumidityMax>>)
                        ELSE Reply("init_failed", 0, <<>>)

\* The body of start_handler: get_user, create_user(chat_id) with the default
\* thresholds when there is no row, the welcome message; any exception is
\* answered with "unable to initialize".
StartBody(chat_id, fault) ==
    IF fault = "get_user"
    THEN response' = Reply("init_failed", 0, <<>>) /\ StoreUntouched
    ELSE IF chat_id \in DOMAIN users
    THEN response' = Reply("welcome", 0, ThresholdsOf(chat_id)) /\ StoreUntouched
    ELSE /\ CreateUserCall(chat_id, DefaultHumidityMin, DefaultHumidityMax, fault)
         /\ response' = IF raised' = "none"
                        THEN Reply("welcome", 0, <<DefaultHumidityMin, DefaultHumidityMax>>)
                        ELSE Reply("init_failed", 0, <<>>)

\* The body of help_handler.
HelpBody == response' = Reply("help", 0, <<>>) /\ StoreUntouched

\* The body of sensors_handler (also /status): the latest reading of the Link
\* Reader, get_user, the readings with the status of the humidity.
SensorsBody(chat_id, latest, fault) ==
    /\ StoreUntouched
    /\ IF latest = <<>> THEN response' = Reply("sensor_unavailable", 0, <<>>)
       ELSE IF fault = "get_user" THEN response' = Reply("unable", 0, <<>>)
       ELSE IF chat_id \notin DOMAIN users THEN response' = Reply("please_start", 0, <<>>)
       ELSE IF latest[1] > users[chat_id].humidity_max
            THEN response' = Reply("readings_high", 0, ThresholdsOf(chat_id))
       ELSE IF latest[1] < users[chat_id].humidity_min
            THEN response' = Reply("readings_low", 0, ThresholdsOf(chat_id))
       ELSE response' = Reply("readings_normal", 0, ThresholdsOf(chat_id))

\* The body of settings_handler.
SettingsBody(chat_id, fault) ==
    /\ StoreUntouched
    /\ IF fault = "get_user" THEN response' = Reply("unable", 0, <<>>)
       ELSE IF chat_id \notin DOMAIN users THEN response' = Reply("user_not_found", 0, <<>>)
       ELSE response' = Reply("settings", 0, ThresholdsOf(chat_id))

\* The setters without their "except Exception": the confirmation is sent
\* whatever update_user_threshold did.
SetThresholdsConfirms(chat_id, humidity_min, humidity_max, fault) ==
    /\ UpdateUserThresholdCall(chat_id, humidity_min, humidity_max, fault)
    /\ response' = Reply("updated", 0, <<humidity_min, humidity_max>>)

\* What the two setters do after their checks: update_user_threshold with the
\* new pair, then the confirmation, or "unable to update" on any exception.
SetThresholds(chat_id, humidity_min, humidity_max, fault) ==
    /\ UpdateUserThresholdCall(chat_id, humidity_min, humidity_max, fault)
    /\ response' = IF raised' = "none"
                   THEN Reply("updated", 0, <<humidity_min, humidity_max>>)
                   ELSE Reply("unable", 0, <<>>)

\* The body of set_humidity_min_handler: the argument is there, float() reads
\* it, it is in [0, 100], the user exists, it is below the current maximum.
SetHumidityMinBody(chat_id, arg, fault) ==
    IF arg.kind = "missing"
    THEN response' = Reply("missing_value", 0, <<>>) /\ StoreUntouched
    ELSE IF arg.kind = "text"
    THEN response' = Reply("invalid_format", 0, <<>>) /\ StoreUntouched
    ELSE IF Lt(arg.value, HumidityLowerBound) \/ Gt(arg.value, HumidityUpperBound)
    THEN response' = Reply("out_of_range", 0, <<>>) /\ StoreUntouched
    ELSE IF fault = "get_user"
    THEN response' = Reply("unable", 0, <<>>) /\ StoreUntouched
    ELSE IF chat_id \notin DOMAIN users
    THEN response' = Reply("user_not_found", 0, <<>>) /\ StoreUntouched
    ELSE IF Ge(arg.value, users[chat_id].humidity_max)
    THEN response' = Reply("min_not_below_max", 0, ThresholdsOf(chat_id))
         /\ StoreUntouched
    ELSE SetThresholds(chat_id, arg.value, users[chat_id].humidity_max, fault)

\* The body of set_humidity_max_handler.
SetHumidityMaxBody(chat_id, arg, fault) ==
    IF arg.kind = "missing"
    THEN response' = Reply("missing_value", 0, <<>>) /\ StoreUntouched
    ELSE IF arg.kind = "text"
    THEN response' = Reply("invalid_format", 0, <<>>) /\ StoreUntouched
    ELSE IF Lt(arg.value, HumidityLowerBound) \/ Gt(arg.value, HumidityUpperBound)
    THEN response' = Reply("out_of_range", 0, <<>>) /\ StoreUntouched
    ELSE IF fault = "get_user"
    THEN response' = Reply("unable", 0, <<>>) /\ StoreUntouched
    ELSE IF chat_id \notin DOMAIN users
    THEN response' = Reply("user_not_found", 0, <<>>) /\ StoreUntouched
    ELSE IF Le(arg.value, users[chat_id].humidity_min)
    THEN response' = Reply("max_not_above_min", 0, ThresholdsOf(chat_id))
         /\ StoreUntouched
    ELSE SetThresholds(chat_id, users[chat_id].humidity_min, arg.value, fault)

\* The handlers as main.py registers them.
StartHandler(chat_id, fault) ==
    /\ request' = Request("start", chat_id, NoArg, fault)
    /\ Undecorated(chat_id, StartBody(chat_id, fault))
    /\ CommandFrame

HelpHandler(chat_id) ==
    /\ request' = Request("help", chat_id, NoArg, "none")
    /\ Undecorated(chat_id, HelpBody)
    /\ CommandFrame

SensorsHandler(chat_id, latest, fault) ==
    /\ request' = Request("sensors", chat_id, NoArg, fault)
    /\ RateLimit(chat_id, SensorsBody(chat_id, latest, fault))
    /\ CommandFrame

SettingsHandler(chat_id, fault) ==
    /\ request' = Request("settings", chat_id, NoArg, fault)
    /\ RateLimit(chat_id, SettingsBody(chat_id, fault))
    /\ CommandFrame

SetHumidityMinHandler(chat_id, arg, fault) ==
    /\ request' = Request("set_humidity_min", chat_id, arg, fault)
    /\ RateLimit(chat_id, SetHumidityMinBody(chat_id, arg, fault))
    /\ CommandFrame

SetHumidityMaxHandler(chat_id, arg, fault) ==
    /\ request' = Request("set_humidity_max", chat_id, arg, fault)
    /\ RateLimit(chat_id, SetHumidityMaxBody(chat_id, arg, fault))
    /\ CommandFrame

\* Time passes between two commands; no command is being answered.
Elapse(d) ==
    /\ time_time + d <= MaxTime
    /\ time_time' = time_time + d
    /\ request' = NoRequest
    /\ response' = NoResponse
    /\ StoreUntouched
    /\ UNCHANGED <<rate_limit_state, sensor_readings, evalVars, readerVars, loopVars,
                   delivered, tasks>>

\* ---------------------------------------------------------------- tool API
\* SensorMCPToolService of mcp/server.py and the SensorHistoryService it reads.
\* The wall clock of the tools, datetime.now(timezone.utc), is time_time: tenths
\* of a second, as recorded_at of a row of sensor_readings.

\* stale_after_seconds of SensorMCPToolService.__init__.
stale_after_seconds == 10

\* "minutes > 7 * 24 * 60" and "limit > 1000" of get_recent_readings.
MaxMinutes == 10080
MaxLimit == 1000

\* None in a result of a tool.
None == -1

\* The rows the table may hold, and how long before its insertion a reading
\* was taken (the timestamp of a payload, or the time of the parse).
MaxReadings == 2

Row(recorded_at, humidity) == [recorded_at |-> recorded_at, humidity |-> humidity]

\* insert_reading: INSERT INTO sensor_readings.
InsertReading(recorded_at, humidity, fault) ==
    /\ Len(sensor_readings) < MaxReadings
    /\ recorded_at <= time_time
    /\ request' = Request("insert_reading", 0, Arg("row", <<recorded_at, humidity>>), fault)
    /\ IF fault = "history"
       THEN response' = Reply("WriteError", 0, <<>>) /\ UNCHANGED sensor_readings
       ELSE /\ sensor_readings' = Append(sensor_readings, Row(recorded_at, humidity))
            /\ response' = Reply("none", 0, <<>>)
    /\ StoreUntouched
    /\ UNCHANGED <<rate_limit_state, time_time, evalVars, readerVars, loopVars,
                   delivered, tasks>>

\* "ORDER BY recorded_at DESC": the orders in which the rows numbered S may
\* come back (rows of one recorded_at in any order).
NewestFirst(rows, S) ==
    {seq \in [1..Cardinality(S) -> S] :
        /\ \A i, j \in 1..Cardinality(S) : i # j => seq[i] # seq[j]
        /\ \A i, j \in 1..Cardinality(S) :
              i < j => rows[seq[i]].recorded_at >= rows[seq[j]].recorded_at}

\* "LIMIT :limit".
Limit(seq, limit) == IF Len(seq) <= limit THEN seq ELSE SubSeq(seq, 1, limit)

\* get_latest: the results "ORDER BY recorded_at DESC LIMIT 1" may give, <<>>
\* for None.
GetLatest(rows) ==
    IF rows = <<>> THEN {<<>>}
    ELSE {<<rows[seq[1]]>> : seq \in NewestFirst(rows, DOMAIN rows)}

\* get_recent: the lists "WHERE recorded_at >= :since ORDER BY recorded_at
\* DESC LIMIT :limit" may give; since is minutes before now.
GetRecent(rows, minutes, limit) ==
    LET since == time_time - minutes * 600
        S == {i \in DOMAIN rows : rows[i].recorded_at >= since}
    IN  {[k \in DOMAIN Limit(seq, limit) |-> rows[Limit(seq, limit)[k]]] :
            seq \in NewestFirst(rows, S)}

\* _require_user and the faults of the Store inside a tool.
ToolFaults == {"none", "get_user", "history"}

\* "max(0, int((now - reading.timestamp).total_seconds()))": int() drops the
\* fraction of a second.
AgeSeconds(reading) ==
    LET tenths == time_time - reading.recorded_at
    IN  Max2(0, IF tenths >= 0 THEN tenths \div 10 ELSE -((-tenths) \div 10))

\* is_stale with ">=" in place of ">".
IsStaleInclusive(age_seconds) == age_seconds >= stale_after_seconds

IsStale(age_seconds) == age_seconds > stale_after_seconds

CurrentReading(status, reading, age_seconds, is_stale, store) ==
    [kind |-> "ok", status |-> status, reading |-> reading, age_seconds |-> age_seconds,
     is_stale |-> is_stale, store |-> store]

\* What a tool call that raises leaves to its caller: the exception and the
\* operations on the Store made before it.
Raises(exc, store) == [kind |-> exc, store |-> store]

\* get_current_reading: _require_user, get_latest, then the reading with its
\* age, or no_data.
GetCurrentReading(chat_id, fault) ==
    /\ request' = Request("get_current_reading", chat_id, NoArg, fault)
    /\ IF fault = "get_user"
       THEN response' = Raises("ReadError", <<"get_user">>)
       ELSE IF chat_id \notin DOMAIN users
       THEN response' = Raises("ValueError", <<"get_user">>)
       ELSE IF fault = "history"
       THEN response' = Raises("ReadError", <<"get_user", "get_latest">>)
       ELSE \E reading \in GetLatest(sensor_readings) :
              IF reading = <<>>
              THEN response' = CurrentReading("no_data", <<>>, None, TRUE,
                                              <<"get_user", "get_latest">>)
              ELSE LET age_seconds == AgeSeconds(reading[1])
                       is_stale == IsStale(age_seconds)
                   IN  response' = CurrentReading(IF is_stale THEN "stale" ELSE "ok",
                                                  reading, age_seconds, is_stale,
                                                  <<"get_user", "get_latest">>)
    /\ StoreUntouched
    /\ UNCHANGED <<rate_limit_state, time_time, sensor_readings, evalVars, readerVars,
                   loopVars, delivered, tasks>>

RECURSIVE SumHumidity(_)
SumHumidity(readings) ==
    IF readings = <<>> THEN 0
    ELSE readings[1].humidity + SumHumidity(Tail(readings))

MinHumidity(readings) ==
    IF readings = <<>> THEN None
    ELSE CHOOSE h \in {readings[i].humidity : i \in DOMAIN readings} :
            \A i \in DOMAIN readings : h <= readings[i].humidity

MaxHumidity(readings) ==
    IF readings = <<>> THEN None
    ELSE CHOOSE h \in {readings[i].humidity : i \in DOMAIN readings} :
            \A i \in DOMAIN readings : h >= readings[i].humidity

\* "round(sum(humidity_values) / len(humidity_values), 2)", in hundredths: the
\* nearest hundredth, and either neighbour when the quotient of the floats
\* falls half way between two.
AvgHumidity(readings) ==
    IF readings = <<>> THEN {None}
    ELSE LET total == SumHumidity(readings)
             n == Len(readings)
             down == total \div n
         IN  IF 2 * (total - down * n) < n THEN {down}
             ELSE IF 2 * (total - down * n) > n THEN {down + 1}
             ELSE {down, down + 1}

RecentReadings(minutes, limit, readings, avg_humidity, store) ==
    [kind |-> "ok", window_minutes |-> minutes, limit |-> limit,
     count |-> Len(readings), avg_humidity |-> avg_humidity,
     min_humidity |-> MinHumidity(readings), max_humidity |-> MaxHumidity(readings),
     readings |-> readings, store |-> store]

\* get_recent_readings that checks its arguments after _require_user.
GetRecentReadingsLateCheck(chat_id, minutes, limit, fault) ==
    /\ request' = Request("get_recent_readings", chat_id, Arg("window", <<minutes, limit>>), fault)
    /\ IF fault = "get_user"
       THEN response' = Raises("ReadError", <<"get_user">>)
       ELSE IF chat_id \notin DOMAIN users
       THEN response' = Raises("ValueError", <<"get_user">>)
       ELSE IF minutes <= 0 \/ minutes > MaxMinutes
       THEN response' = Raises("ValueError", <<"get_user">>)
       ELSE IF limit <= 0 \/ limit > MaxLimit
       THEN response' = Raises("ValueError", <<"get_user">>)
       ELSE IF fault = "history"
       THEN response' = Raises("ReadError", <<"get_user", "get_recent">>)
       ELSE \E readings \in GetRecent(sensor_readings, minutes, limit) :
              \E avg_humidity \in AvgHumidity(readings) :
                 response' = RecentReadings(minutes, limit, readings, avg_humidity,
                                            <<"get_user", "get_recent">>)
    /\ StoreUntouched
    /\ UNCHANGED <<rate_limit_state, time_time, sensor_readings, evalVars, readerVars,
                   loopVars, delivered, tasks>>

\* get_recent_readings: check minutes and limit, _require_user, get_recent,
\* then the readings with their summary.
GetRecentReadings(chat_id, minutes, limit, fault) ==
    /\ request' = Request("get_recent_readings", chat_id, Arg("window", <<minutes, limit>>), fault)
    /\ IF minutes <= 0 \/ minutes > MaxMinutes
       THEN response' = Raises("ValueError", <<>>)
       ELSE IF limit <= 0 \/ limit > MaxLimit
       THEN response' = Raises("ValueError", <<>>)
       ELSE IF fault = "get_user"
       THEN response' = Raises("ReadError", <<"get_user">>)
       ELSE IF chat_id \notin DOMAIN users
       THEN response' = Raises("ValueError", <<"get_user">>)
       ELSE IF fault = "history"
       THEN response' = Raises("ReadError", <<"get_user", "get_recent">>)
       ELSE \E readings \in GetRecent(sensor_readings, minutes, limit) :
              \E avg_humidity \in AvgHumidity(readings) :
                 response' = RecentReadings(minutes, limit, readings, avg_humidity,
                                            <<"get_user", "get_recent">>)
    /\ StoreUntouched
    /\ UNCHANGED <<rate_limit_state, time_time, sensor_readings, evalVars, readerVars,
                   loopVars, delivered, tasks>>

\* What a setter of the tool API returns: status ok and the pair of the User
\* update_user_threshold returned; or the exception it lets through.
ToolSetThresholds(chat_id, humidity_min, humidity_max, fault) ==
    /\ UpdateUserThresholdCall(chat_id, humidity_min, humidity_max, fault)
    /\ response' = IF raised' = "none"
                   THEN Reply("ok", 0, <<humidity_min, humidity_max>>)
                   ELSE Reply(raised', 0, <<>>)

\* set_humidity_min of the tool API that writes the default maximum in place
\* of the current one.
ToolSetHumidityMinDefaultMax(chat_id, value, fault) ==
    /\ request' = Request("tool_set_humidity_min", chat_id, Arg("number", value), fault)
    /\ IF Lt(value, HumidityLowerBound) \/ Gt(value, HumidityUpperBound)
       THEN response' = Reply("ValueError", 0, <<>>) /\ StoreUntouched
       ELSE IF fault = "get_user"
       THEN response' = Reply("ReadError", 0, <<>>) /\ StoreUntouched
       ELSE IF chat_id \notin DOMAIN users
       THEN response' = Reply("ValueError", 0, <<>>) /\ StoreUntouched
       ELSE IF Ge(value, users[chat_id].humidity_max)
       THEN response' = Reply("ValueError", 0, <<>>) /\ StoreUntouched
       ELSE ToolSetThresholds(chat_id, value, DefaultHumidityMax, fault)
    /\ UNCHANGED <<rate_limit_state, time_time, sensor_readings, evalVars, readerVars,
                   loopVars, delivered, tasks>>

\* set_humidity_min of the tool API: _validate_humidity, _require_user, the
\* comparison with the current maximum, update_user_threshold.
ToolSetHumidityMin(chat_id, value, fault) ==
    /\ request' = Request("tool_set_humidity_min", chat_id, Arg("number", value), fault)
    /\ IF Lt(value, HumidityLowerBound) \/ Gt(value, HumidityUpperBound)
       THEN response' = Reply("ValueError", 0, <<>>) /\ StoreUntouched
       ELSE IF fault = "get_user"
       THEN response' = Reply("ReadError", 0, <<>>) /\ StoreUntouched
       ELSE IF chat_id \notin DOMAIN users
       THEN response' = Reply("ValueError", 0, <<>>) /\ StoreUntouched
       ELSE IF Ge(value, users[chat_id].humidity_max)
       THEN response' = Reply("ValueError", 0, <<>>) /\ StoreUntouched
       ELSE ToolSetThresholds(chat_id, value, users[chat_id].humidity_max, fault)
    /\ UNCHANGED <<rate_limit_state, time_time, sensor_readings, evalVars, readerVars,
                   loopVars, delivered, tasks>>

\* set_humidity_max of the tool API.
ToolSetHumidityMax(chat_id, value, fault) ==
    /\ request' = Request("tool_set_humidity_max", chat_id, Arg("number", value), fault)
    /\ IF Lt(value, HumidityLowerBound) \/ Gt(value, HumidityUpperBound)
       THEN response' = Reply("ValueError", 0, <<>>) /\ StoreUntouched
       ELSE IF fault = "get_user"
       THEN response' = Reply("ReadError", 0, <<>>) /\ StoreUntouched
       ELSE IF chat_id \notin DOMAIN users
       THEN response' = Reply("ValueError", 0, <<>>) /\ StoreUntouched
       ELSE IF Le(value, users[chat_id].humidity_min)
       THEN response' = Reply("ValueError", 0, <<>>) /\ StoreUntouched
       ELSE ToolSetThresholds(chat_id, users[chat_id].humidity_min, value, fault)
    /\ UNCHANGED <<rate_limit_state, time_time, sensor_readings, evalVars, readerVars,
                   loopVars, delivered, tasks>>

\* ------------------------------------------------------------ specification

\* The value of the variables of a service the run does not construct.
Absent == <<>>

\* The evaluator is not called on its own.
NoEvaluatorCall ==
    /\ args = Absent
    /\ ret = Absent

\* No SerialReaderService is constructed (the tests of the Store, of the
\* evaluator and of the AlertManager construct none).
NoReader ==
    /\ reader = Absent
    /\ reader_call = Absent
    /\ reader_hist = Absent

\* monitoring_loop is not started.
NoLoop ==
    /\ loop = Absent
    /\ tick = Absent

\* No chat command handler and no tool of the MCP server is registered, the
\* parser is not called on its own, deliveries are not followed.
NoFront ==
    /\ rate_limit_state = Absent
    /\ time_time = Absent
    /\ sensor_readings = Absent
    /\ request = Absent
    /\ response = Absent
    /\ delivered = Absent
    /\ tasks = Absent

Init ==
    /\ users = <<>>
    /\ alert_states = <<>>
    /\ now = TimeLine[1]
    /\ call = Call("none", 0, 0)
    /\ before = Tables
    /\ sent = <<>>
    /\ logged = "none"
    /\ raised = "none"
    /\ scenario = <<>>
    /\ rejected = <<>>
    /\ NoEvaluatorCall
    /\ NoReader
    /\ NoLoop
    /\ NoFront

Next ==
    \/ \E c \in ChatIds, h \in HumidityValues, f \in ProcessFaults :
          ProcessReading(c, h, f)
    \/ \E c \in ChatIds, t \in ThresholdInputs, f \in CreateFaults :
          CreateUser(c, t[1], t[2], f)
    \/ \E c \in ChatIds, t \in ThresholdInputs, f \in UpdateFaults :
          UpdateUserThreshold(c, t[1], t[2], f)
    \/ AdvanceClock

Spec == Init /\ [][Next]_vars

\* The evaluator on its own: the arguments are drawn at the start, the store
\* stays empty.
InitEval ==
    /\ users = <<>>
    /\ alert_states = <<>>
    /\ now = TimeLine[1]
    /\ call = Call("none", 0, 0)
    /\ before = Tables
    /\ sent = <<>>
    /\ logged = "none"
    /\ raised = "none"
    /\ scenario = <<>>
    /\ rejected = <<>>
    /\ args \in DetermineStateArgs \cup ShouldSendAlertArgs
    /\ ret = NoRet
    /\ NoReader
    /\ NoLoop
    /\ NoFront

NextEval ==
    \/ CallDetermineState
    \/ CallShouldSendAlert

SpecEval == InitEval /\ [][NextEval]_vars

\* The runs in which recipients register and readings are processed, with
\* sends and writes that may fail.
RetryFaults == {"none", "send_error", "write"}
RetryHumidity == {2800, 5200, 7250}

\* The monitoring loop calls process_reading for every registered recipient on
\* every reading; while the humidity stays above the recipient's maximum and
\* the Messenger and the Store work again and again, a call that classifies
\* high and goes through without a failure is taken whenever it keeps being
\* possible.
HighReadingGoesThrough(chat_id) ==
    \E h \in RetryHumidity :
        /\ chat_id \in DOMAIN users
        /\ h > users[chat_id].humidity_max
        /\ ProcessReading(chat_id, h, "none")
        /\ sent' # <<>>


NextRetry ==
    \/ \E c \in ChatIds, h \in RetryHumidity, f \in RetryFaults :
          ProcessReading(c, h, f)
    \/ \E c \in ChatIds :
          CreateUser(c, DefaultHumidityMin, DefaultHumidityMax, "none")
    \/ AdvanceClock

SpecRetry ==
    Init /\ [][NextRetry]_vars /\ \A c \in ChatIds : SF_vars(HighReadingGoesThrough(c))

\* The Link Reader on its own: connect, read_sensor_data and disconnect in any
\* order, the Link opening or not and giving any line.
NextLink ==
    \/ \E opens \in BOOLEAN : CallConnect(opens)
    \/ CallDisconnect
    \/ \E line \in LinkReads : CallReadSensorData(line)

InitLink ==
    /\ users = <<>>
    /\ alert_states = <<>>
    /\ now = TimeLine[1]
    /\ call = Call("none", 0, 0)
    /\ before = Tables
    /\ sent = <<>>
    /\ logged = "none"
    /\ raised = "none"
    /\ scenario = <<>>
    /\ rejected = <<>>
    /\ NoEvaluatorCall
    /\ reader = NewReader
    /\ reader_call = NoReaderCall
    /\ reader_hist = NoReaderHist
    /\ NoLoop
    /\ NoFront

SpecLink == InitLink /\ [][NextLink]_vars

\* The UserSettingsService on its own: every operation that creates a
\* recipient or changes thresholds, with any arguments.
NextSettings ==
    \/ \E c \in ChatIds, t \in ThresholdInputs, f \in CreateFaults :
          CreateUser(c, t[1], t[2], f)
    \/ \E c \in ChatIds, t \in ThresholdInputs, f \in UpdateFaults :
          UpdateUserThreshold(c, t[1], t[2], f)
    \/ \E c \in ChatIds, t \in OptionalThresholds, f \in UpdateFaults :
          UpdateUserSettings(c, t[1], t[2], f)
    \/ \E c \in ChatIds, t \in ThresholdInputs, f \in SettingsFaults :
          CreateOrUpdateUser(c, t[1], t[2], f)

SpecSettings == Init /\ [][NextSettings]_vars

\* main and the monitoring loop, while recipients register.
NextLoop ==
    \/ \E opens \in BOOLEAN : MainConnect(opens)
    \/ LoopStart
    \/ \E line \in LinkReads, f \in ListFaults : TickRead(line, f)
    \/ \E f \in ListFaults : TickListUsers(f)
    \/ \E f \in LoopProcessFaults : TickProcess(f)
    \/ \E opens \in BOOLEAN, f \in ListFaults : TickReconnect(opens, f)
    \/ TickSleep
    \/ TickResume
    \/ Cancel
    \/ \E stops \in BOOLEAN : MainCleanup(stops)
    \/ \E c \in ChatIds : CreateUser(c, DefaultHumidityMin, DefaultHumidityMax, "none")

InitLoop ==
    /\ users = <<>>
    /\ alert_states = <<>>
    /\ now = TimeLine[1]
    /\ call = Call("none", 0, 0)
    /\ before = Tables
    /\ sent = <<>>
    /\ logged = "none"
    /\ raised = "none"
    /\ scenario = <<>>
    /\ rejected = <<>>
    /\ NoEvaluatorCall
    /\ reader = NewReader
    /\ reader_call = NoReaderCall
    /\ reader_hist = NoReaderHist
    /\ loop = NewLoop
    /\ tick = NewTick
    /\ NoFront

SpecLoop == InitLoop /\ [][NextLoop]_vars

\* asyncio.sleep(5) of the except branch returns unless the task is cancelled.
SpecLoopFair == InitLoop /\ [][NextLoop]_vars /\ WF_vars(TickResume)

\* The chat commands and the setters of the tool API, while time passes: any
\* recipient sends any command with any argument, the Store failing or not.
\* update_user_threshold as a caller of the service sees it.
ServiceUpdateUserThreshold(chat_id, humidity_min, humidity_max, fault) ==
    /\ request' = Request("update_user_threshold", chat_id,
                          Arg("pair", <<humidity_min, humidity_max>>), fault)
    /\ UpdateUserThresholdCall(chat_id, humidity_min, humidity_max, fault)
    /\ response' = IF raised' = "none"
                   THEN Reply("ok", 0, <<humidity_min, humidity_max>>)
                   ELSE Reply(raised', 0, <<>>)
    /\ UNCHANGED <<rate_limit_state, time_time, sensor_readings, evalVars, readerVars,
                   loopVars, delivered, tasks>>

InitFront ==
    /\ users = <<>>
    /\ alert_states = <<>>
    /\ now = TimeLine[1]
    /\ call = Call("none", 0, 0)
    /\ before = Tables
    /\ sent = <<>>
    /\ logged = "none"
    /\ raised = "none"
    /\ scenario = <<>>
    /\ rejected = <<>>
    /\ NoEvaluatorCall
    /\ NoReader
    /\ NoLoop
    /\ rate_limit_state = <<>>
    /\ time_time = 0
    /\ sensor_readings = <<>>
    /\ request = NoRequest
    /\ response = NoResponse
    /\ delivered = Absent
    /\ tasks = Absent

\* The recipient whose commands carry arguments; the other one only starts.
Commander == ScenarioChat
ServiceInputs == {<<3500, 6000>>, <<7000, 6000>>, <<6000, 6000>>, <<-100, 6000>>,
                  <<4000, 10100>>}

NextCommands ==
    \/ \E c \in ChatIds, f \in StartFaults : StartHandler(c, f)
    \/ \E a \in CommandArgs, f \in SetFaults : SetHumidityMinHandler(Commander, a, f)
    \/ \E a \in CommandArgs, f \in SetFaults : SetHumidityMaxHandler(Commander, a, f)
    \/ \E v \in CommandValues, f \in SetFaults : ToolSetHumidityMin(Commander, v, f)
    \/ \E v \in CommandValues, f \in SetFaults : ToolSetHumidityMax(Commander, v, f)
    \/ \E t \in ServiceInputs, f \in UpdateFaults :
          ServiceUpdateUserThreshold(Commander, t[1], t[2], f)
    \/ Elapse(RateLimitSeconds)

SpecCommands == InitFront /\ [][NextCommands]_vars

\* The rate limiter: both recipients send every command, at any pace.
LimiterArgs == {Arg("missing", 0), Arg("number", 3500)}
LimiterReadings == {<<>>, <<5200>>}

NextLimiter ==
    \/ \E c \in ChatIds : StartHandler(c, "none")
    \/ \E c \in ChatIds : HelpHandler(c)
    \/ \E c \in ChatIds, latest \in LimiterReadings : SensorsHandler(c, latest, "none")
    \/ \E c \in ChatIds : SettingsHandler(c, "none")
    \/ \E c \in ChatIds, a \in LimiterArgs : SetHumidityMinHandler(c, a, "none")
    \/ \E c \in ChatIds : SetHumidityMaxHandler(c, NoArg, "none")
    \/ \E d \in Delays : Elapse(d)

SpecLimiter == InitFront /\ [][NextLimiter]_vars

\* The two reading tools of the tool API over a history that fills; one
\* recipient registers, the other never does. The clock stands at 0: a reading
\* taken before has a negative recorded_at.
Readings == {Row(0, 5201), Row(-95, 5200), Row(-100, 7250), Row(-105, 5200),
             Row(-105, 5201), Row(-110, 2800), Row(-650, 7250)}
Windows == {<<0, 1>>, <<1, 0>>, <<1, 1>>, <<1, 2>>, <<2, 1000>>, <<10080, 1000>>,
            <<10081, 1>>, <<1, 1001>>}

NextTools ==
    \/ \E r \in Readings, f \in {"none", "history"} :
          InsertReading(r.recorded_at, r.humidity, f)
    \/ \E c \in ChatIds, f \in ToolFaults : GetCurrentReading(c, f)
    \/ \E c \in ChatIds, w \in Windows, f \in ToolFaults :
          GetRecentReadings(c, w[1], w[2], f)
    \/ StartHandler(Commander, "none")

SpecTools == InitFront /\ [][NextTools]_vars

\* ------------------------------------------------------------------ parser
\* A line of the Link, as parse_sensor_data sees it. shape tells what
\* json.loads makes of the text: "labeled" is the text line
\* 'Humidity: 56.00%  DHT Temp: 23.40C  LM35: 24.93C  Therm: 22.73C', "invalid"
\* any other text that is not JSON, "empty" the empty line, "non_dict" a JSON
\* list, number or string, "deep" a text that nests deeper than the
\* interpreter's recursion limit, "digits" a text holding an integer literal of
\* more digits than int() converts, "dict" a JSON object. The other fields are
\* the keys of the object (Missing: the key is not there); a labeled line
\* carries the values it states under the canonical keys.
\* A JSON value is a number (v in thousandths), a string that float() reads
\* (numeric_string), any other string (text), an integer literal beyond the
\* range of a float (huge_int), 1e999 or "inf" (infinity), null, or a list.
\* A timestamp string is ISO 8601 without zone (iso_naive), with Z (iso_utc)
\* or with the offset of ZoneOffset (iso_offset); v is the wall time it states,
\* in tenths of a second. iso_edge is a valid string within a zone offset of
\* the first or the last representable day, as '0001-01-01T00:00:00+05:00'.
Json(kind, v) == [kind |-> kind, v |-> v]
Missing == Json("missing", 0)
ZoneOffset == 600
Infinity == 999999

PayloadKeys ==
    {"humidity", "dht_temperature", "dht_temp", "lm35_temperature", "lm35_temp",
     "thermistor_temperature", "therm_temp", "timestamp"}

SENSOR_FIELD_ALIASES ==
    [humidity |-> <<"humidity">>,
     dht_temperature |-> <<"dht_temperature", "dht_temp">>,
     lm35_temperature |-> <<"lm35_temperature", "lm35_temp">>,
     thermistor_temperature |-> <<"thermistor_temperature", "therm_temp">>]

\* What a helper of the parser gives: a value (<<>> for None) or an exception.
Value(v) == [value |-> <<v>>, raised |-> "none"]
NoValue == [value |-> <<>>, raised |-> "none"]
Throws(exc) == [value |-> <<>>, raised |-> exc]

\* float(x) of Python for a value read from JSON
Float(x) ==
    CASE x.kind \in {"number", "numeric_string"} -> Value(x.v)
      [] x.kind = "infinity" -> Value(Infinity)
      [] x.kind = "huge_int" -> Throws("OverflowError")
      [] x.kind = "text" -> Throws("ValueError")
      [] OTHER -> Throws("TypeError")

\* _extract_float
ExtractFloat(payload, field) ==
    LET keys == SENSOR_FIELD_ALIASES[field]
        present == {i \in 1..Len(keys) : payload[keys[i]] # Missing}
    IN  IF present = {} THEN NoValue
        ELSE LET first == CHOOSE i \in present : \A j \in present : i <= j
                 f == Float(payload[keys[first]])
             IN  IF f.raised \in {"TypeError", "ValueError"} THEN NoValue ELSE f

\* _parse_timestamp; the result is an instant of UTC in tenths of a second
ParseTimestamp(payload) ==
    LET timestamp_raw == payload.timestamp
    IN  CASE timestamp_raw.kind \in {"missing", "null"} -> Value(time_time)
          [] timestamp_raw.kind \in {"iso_naive", "iso_utc"} -> Value(timestamp_raw.v)
          [] timestamp_raw.kind = "iso_offset" -> Value(timestamp_raw.v - ZoneOffset)
          [] timestamp_raw.kind = "iso_edge" -> Throws("OverflowError")
          [] OTHER -> NoValue

\* SensorReading: the Field ranges (on the value as given), the validator
\* timestamp_not_future, and round_to_two_decimals (to hundredths; no value
\* of the runs lies half way between two hundredths).
Round2(v) == (v + 5) \div 10
TemperatureLowerBound == -40000
TemperatureUpperBound == 125000
SensorReadingValid(humidity, dht, lm35, therm, timestamp) ==
    /\ humidity >= HumidityLowerBound * 10 /\ humidity <= HumidityUpperBound * 10
    /\ \A t \in {dht, lm35, therm} :
          t >= TemperatureLowerBound /\ t <= TemperatureUpperBound
    /\ timestamp <= time_time
SensorReading(humidity, dht, lm35, therm, timestamp) ==
    [humidity |-> Round2(humidity), dht_temperature |-> Round2(dht),
     lm35_temperature |-> Round2(lm35), thermistor_temperature |-> Round2(therm),
     timestamp |-> timestamp]

\* What parse_sensor_data gives: a reading (<<>> for None) or an exception.
Parsed(reading) == [reading |-> reading, raised |-> "none"]
ParserRaises(exc) == [reading |-> <<>>, raised |-> exc]

\* parse_sensor_data
parse_sensor_data(data) ==
    IF data.shape \in {"labeled", "invalid", "empty"} THEN Parsed(<<>>)
    ELSE IF data.shape = "deep" THEN ParserRaises("RecursionError")
    ELSE IF data.shape = "digits" THEN ParserRaises("ValueError")
    ELSE IF data.shape # "dict" THEN Parsed(<<>>)
    ELSE LET parts == <<ExtractFloat(data, "humidity"),
                        ExtractFloat(data, "dht_temperature"),
                        ExtractFloat(data, "lm35_temperature"),
                        ExtractFloat(data, "thermistor_temperature"),
                        ParseTimestamp(data)>>
             failed == {i \in 1..5 : parts[i].raised # "none"}
         IN  IF failed # {}
             THEN ParserRaises(parts[CHOOSE i \in failed : \A j \in failed : i <= j].raised)
             ELSE IF \E i \in 1..5 : parts[i].value = <<>> THEN Parsed(<<>>)
             ELSE IF SensorReadingValid(parts[1].value[1], parts[2].value[1],
                                        parts[3].value[1], parts[4].value[1],
                                        parts[5].value[1])
             THEN Parsed(<<SensorReading(parts[1].value[1], parts[2].value[1],
                                         parts[3].value[1], parts[4].value[1],
                                         parts[5].value[1])>>)
             ELSE Parsed(<<>>)

\* The line as read_sensor_data meets it: an exception inside its try block,
\* an empty line, a line that gives no reading, or one that gives a reading.
LineOf(data) ==
    LET parsed == parse_sensor_data(data)
    IN  IF data.shape = "empty" THEN LinkRead("empty", 0)
        ELSE IF parsed.raised # "none" THEN LinkRead("raise", 0)
        ELSE IF parsed.reading = <<>> THEN LinkRead("garbage", 0)
        ELSE LinkRead("telemetry", parsed.reading[1].humidity)

\* A reader whose Link is open.
OpenReader == Connect(NewReader, TRUE).self

\* The lines offered to the parser.
Payload(shape, humidity, temperatures, timestamp) ==
    [shape |-> shape, humidity |-> humidity,
     dht_temperature |-> temperatures[1], dht_temp |-> temperatures[2],
     lm35_temperature |-> temperatures[3], lm35_temp |-> temperatures[4],
     thermistor_temperature |-> temperatures[5], therm_temp |-> temperatures[6],
     timestamp |-> timestamp]
Number(v) == Json("number", v)
PayloadHumidity ==
    {Number(56000), Number(56004), Number(0), Number(100000), Number(100004),
     Number(-10), Json("numeric_string", 56000), Json("text", 0),
     Json("huge_int", 0), Json("infinity", 0), Json("null", 0), Json("list", 0),
     Missing}
PayloadTemperatures ==
    {<<Number(23400), Missing, Number(24930), Missing, Number(22730), Missing>>,
     <<Missing, Number(23400), Missing, Number(24930), Missing, Number(22730)>>,
     <<Json("text", 0), Number(23400), Number(24930), Missing, Number(22730), Missing>>,
     <<Number(23400), Json("text", 0), Number(24930), Missing, Number(22730), Missing>>,
     <<Number(23400), Missing, Missing, Missing, Number(22730), Missing>>,
     <<Number(23400), Missing, Json("huge_int", 0), Missing, Number(22730), Missing>>,
     <<Number(-40000), Missing, Number(125000), Missing, Number(22730), Missing>>,
     <<Number(23400), Missing, Number(24930), Missing, Missing, Number(125010)>>}
PayloadTimestamps ==
    {Missing, Json("null", 0), Json("iso_naive", -10), Json("iso_naive", 10),
     Json("iso_utc", 0), Json("iso_offset", 10), Json("iso_offset", ZoneOffset + 10),
     Json("iso_edge", 0), Json("text", 0), Json("number", -10)}
NoTemperatures == <<Missing, Missing, Missing, Missing, Missing, Missing>>
LabeledLine ==
    Payload("labeled", Number(56000),
            <<Number(23400), Missing, Number(24930), Missing, Number(22730), Missing>>,
            Missing)
ParserInputs ==
    {Payload("dict", h, t, ts) :
        h \in PayloadHumidity, t \in PayloadTemperatures, ts \in PayloadTimestamps}
    \cup {Payload(s, Missing, NoTemperatures, Missing) :
            s \in {"invalid", "empty", "non_dict", "deep", "digits"}}
    \cup {LabeledLine}

\* The parser and the reader on one line: parse_sensor_data(data), and
\* read_sensor_data of a reader whose Link is open and delivers data.
ParseLine ==
    /\ response = NoResponse
    /\ response' = [parsed |-> parse_sensor_data(request),
                    read |-> ReadSensorData(OpenReader, LineOf(request)).reading]
    /\ UNCHANGED <<storeVars, evalVars, readerVars, loopVars, rate_limit_state,
                   time_time, sensor_readings, request, delivered, tasks>>

InitParser ==
    /\ users = <<>>
    /\ alert_states = <<>>
    /\ now = TimeLine[1]
    /\ call = Call("none", 0, 0)
    /\ before = Tables
    /\ sent = <<>>
    /\ logged = "none"
    /\ raised = "none"
    /\ scenario = <<>>
    /\ rejected = <<>>
    /\ NoEvaluatorCall
    /\ NoReader
    /\ NoLoop
    /\ rate_limit_state = <<>>
    /\ time_time = 0
    /\ sensor_readings = <<>>
    /\ request \in ParserInputs
    /\ response = NoResponse
    /\ delivered = Absent
    /\ tasks = Absent

NextParser == ParseLine

SpecParser == InitParser /\ [][NextParser]_vars

\* ------------------------------------------------- deliveries over a run
\* process_reading with the alerts it delivers remembered per recipient:
\* delivered[chat_id] is the last message delivered to chat_id since the
\* readings of chat_id last changed class: its kind, when it was sent (at),
\* the class of the reading (state), whether its AlertState write succeeded
\* (persisted), the time since the message of the same kind delivered before
\* it with no change of class in between (gap, NullTime if there is none), and
\* whether the write of that earlier message had failed (after_lost).
Delivery(kind, at, state, persisted, gap, after_lost) ==
    [kind |-> kind, at |-> at, state |-> state, persisted |-> persisted,
     gap |-> gap, after_lost |-> after_lost]

Forget(f, chat_id) == [c \in DOMAIN f \ {chat_id} |-> f[c]]

DeliveredAfter(chat_id, humidity, msgs, exc) ==
    IF chat_id \notin DOMAIN users THEN delivered
    ELSE LET state == DetermineState(humidity, users[chat_id])
             same == chat_id \in DOMAIN delivered /\ delivered[chat_id].state = state
             got == msgs # <<>> /\ msgs[1].delivered
         IN  IF ~got
             THEN IF same \/ chat_id \notin DOMAIN delivered THEN delivered
                  ELSE Forget(delivered, chat_id)
             ELSE LET repeat == same /\ delivered[chat_id].kind = msgs[1].kind
                      d == Delivery(msgs[1].kind, now, state, exc = "none",
                                    IF repeat THEN now - delivered[chat_id].at
                                    ELSE NullTime,
                                    repeat /\ ~delivered[chat_id].persisted)
                  IN  InsertRow(delivered, chat_id, d)

ObservedProcessReading(chat_id, humidity, fault) ==
    /\ ProcessReadingCall(chat_id, humidity, fault)
    /\ delivered' = DeliveredAfter(chat_id, humidity, sent', logged')
    /\ UNCHANGED <<evalVars, readerVars, loopVars, frontVars, tasks>>

\* /start of a new recipient, and time passing, in a run that remembers the
\* deliveries.
Register(chat_id) ==
    /\ chat_id \notin DOMAIN users
    /\ CreateUserCall(chat_id, DefaultHumidityMin, DefaultHumidityMax, "none")
    /\ UNCHANGED <<evalVars, readerVars, loopVars, frontVars, delivered, tasks>>

CooldownHumidity == {5200, 7250}
CooldownFaults == {"none", "send_error", "write"}

InitCooldown ==
    /\ users = <<>>
    /\ alert_states = <<>>
    /\ now = TimeLine[1]
    /\ call = Call("none", 0, 0)
    /\ before = Tables
    /\ sent = <<>>
    /\ logged = "none"
    /\ raised = "none"
    /\ scenario = <<>>
    /\ rejected = <<>>
    /\ NoEvaluatorCall
    /\ NoReader
    /\ NoLoop
    /\ rate_limit_state = Absent
    /\ time_time = Absent
    /\ sensor_readings = Absent
    /\ request = Absent
    /\ response = Absent
    /\ delivered = <<>>
    /\ tasks = Absent

NextCooldown ==
    \/ \E c \in ChatIds : Register(c)
    \/ \E c \in ChatIds, h \in CooldownHumidity, f \in CooldownFaults :
          ObservedProcessReading(c, h, f)
    \/ AdvanceClock

SpecCooldown == InitCooldown /\ [][NextCooldown]_vars

\* ------------------------------------------------ every writer of the Store
\* notify_all_users on its own: get_all_users, then a send_message to every
\* user; a failure of either is logged, nothing is raised and no table is
\* written. fault "send_error" fails every send.
NotifyAllUsersCall(kind, fault) ==
    LET n == NotifyAllUsers(kind, users, fault)
    IN  /\ call' = Call("notify_all_users", 0, 0)
        /\ before' = Tables
        /\ sent' = [i \in 1..Len(n.to) |->
                       [chat_id |-> n.to[i], kind |-> kind,
                        delivered |-> fault # "send_error"]]
        /\ logged' = IF fault = "list_users" THEN "ListError"
                     ELSE IF fault = "send_error" /\ n.to # <<>> THEN "SendError"
                     ELSE "none"
        /\ raised' = "none"
        /\ rejected' = <<>>
        /\ request' = NoRequest
        /\ response' = NoResponse
        /\ UNCHANGED <<users, alert_states, now, scenario, rate_limit_state, time_time,
                       sensor_readings, evalVars, readerVars, loopVars, delivered, tasks>>

\* process_reading between two commands.
ProcessReadingBetween(chat_id, humidity, fault) ==
    /\ ProcessReadingCall(chat_id, humidity, fault)
    /\ request' = NoRequest
    /\ response' = NoResponse
    /\ UNCHANGED <<rate_limit_state, time_time, sensor_readings, evalVars, readerVars,
                   loopVars, delivered, tasks>>

\* Every operation that reaches the Store, in any order: the alert
\* orchestrator, the chat commands, the tool API, the threshold service and
\* the connectivity broadcast.
FrameHumidity == {5200, 7250}
FrameFaults == {"none", "read_state", "send_forbidden", "send_error", "write"}
FrameArgs == {Arg("number", 3500), Arg("missing", 0)}
FrameValues == {5500, 8000}
FrameThresholds == {<<5500, 8000>>, <<7000, 6000>>}
FrameStoreFaults == {"none", "write"}
BroadcastFaults == {"none", "list_users", "send_error"}

NextFrame ==
    \/ \E c \in ChatIds, h \in FrameHumidity, f \in FrameFaults :
          ProcessReadingBetween(c, h, f)
    \/ \E c \in ChatIds, f \in StartFaults : StartHandler(c, f)
    \/ \E a \in FrameArgs, f \in FrameStoreFaults : SetHumidityMinHandler(Commander, a, f)
    \/ \E a \in FrameArgs, f \in FrameStoreFaults : SetHumidityMaxHandler(Commander, a, f)
    \/ SettingsHandler(Commander, "none")
    \/ \E v \in FrameValues, f \in FrameStoreFaults : ToolSetHumidityMin(Commander, v, f)
    \/ \E v \in FrameValues, f \in FrameStoreFaults : ToolSetHumidityMax(Commander, v, f)
    \/ GetCurrentReading(Commander, "none")
    \/ \E t \in FrameThresholds, f \in FrameStoreFaults :
          ServiceUpdateUserThreshold(Commander, t[1], t[2], f)
    \/ \E k \in {"lost", "restored"}, f \in BroadcastFaults : NotifyAllUsersCall(k, f)
    \/ Elapse(RateLimitSeconds)

SpecFrame == InitFront /\ [][NextFrame]_vars

\* ------------------------------------------------- the pace of reconnects
\* The two drivers of the reader, SerialReaderService.run and
\* monitoring_loop, with the time their sleeps take. Times are in tenths of a
\* second; the calls of the Link, the Store and the Messenger are taken to
\* return at once, which is the earliest a driver can come to its next
\* connect(). reader_hist.since is the time since the last connect() that
\* failed (None after a connect() that succeeded and before the first one);
\* reader_call tells of the last step whether it was a connect(), how long
\* after the failed connect() before it (gap), and the backoff_delay that was
\* current then (due). Times beyond the longest backoff count as the longest
\* backoff and a tenth.
Driver(name, pc, reading) == [driver |-> name, pc |-> pc, reading |-> reading]
Tenths(seconds) == seconds * 10
LongestWait == Tenths(MaxBackoffDelay) + 1
Since(t) == [since |-> t]
Later(d) ==
    IF reader_hist.since = None THEN reader_hist
    ELSE Since(Min2(reader_hist.since + d, LongestWait))

NoConnect == [op |-> "none", gap |-> None, due |-> 0]
ConnectAttempt ==
    [op |-> "connect", gap |-> reader_hist.since,
     due |-> Tenths(reader.connection_state.backoff_delay)]

\* await self.connect(), timed
TimedConnect(opens) ==
    /\ opens \/ reader.connection_state.reconnect_attempts < MaxAttempts
    /\ reader' = Connect(reader, opens).self
    /\ reader_call' = ConnectAttempt
    /\ reader_hist' = IF opens THEN Since(None) ELSE Since(0)

BackoffFrame == UNCHANGED <<storeVars, evalVars, tick, frontVars, delivered, tasks>>

\* run, lines 113-118: the test of stop_event, and connect() when
\* is_connected() is false. A stop is an event set before the test.
RunTop(stop, opens) ==
    /\ loop.driver = "run" /\ loop.pc = "top"
    /\ IF stop
       THEN /\ loop' = Driver("run", "done", <<>>)
            /\ reader_call' = NoConnect
            /\ UNCHANGED <<reader, reader_hist>>
       ELSE IF ~IsConnected(reader)
       THEN /\ TimedConnect(opens)
            /\ loop' = Driver("run", IF opens THEN "read" ELSE "backoff", <<>>)
       ELSE /\ loop' = Driver("run", "read", <<>>)
            /\ reader_call' = NoConnect
            /\ UNCHANGED <<reader, reader_hist>>
    /\ BackoffFrame

\* run, lines 117-118: asyncio.sleep(self.connection_state.backoff_delay)
RunBackoffNoSleep ==
    /\ loop.driver = "run" /\ loop.pc = "backoff"
    /\ loop' = Driver("run", "top", <<>>)
    /\ reader_call' = NoConnect
    /\ UNCHANGED <<reader, reader_hist>>
    /\ BackoffFrame

RunBackoff ==
    /\ loop.driver = "run" /\ loop.pc = "backoff"
    /\ loop' = Driver("run", "top", <<>>)
    /\ reader_hist' = Later(Tenths(reader.connection_state.backoff_delay))
    /\ reader_call' = NoConnect
    /\ UNCHANGED reader
    /\ BackoffFrame

\* run, lines 120-123: read_sensor_data(), and asyncio.sleep(0.1) when it gave
\* no reading.
RunRead(line) ==
    LET o == ReadSensorData(reader, line)
    IN  /\ loop.driver = "run" /\ loop.pc = "read"
        /\ reader' = o.self
        /\ loop' = Driver("run", "top", <<>>)
        /\ reader_hist' = IF o.reading = <<>> THEN Later(1) ELSE reader_hist
        /\ reader_call' = NoConnect
        /\ BackoffFrame

\* monitoring_loop, lines 69-89: read_sensor_data() and the broadcast of a
\* change of is_connected(), which is no call of the reader.
PacedTickRead(line) ==
    LET o == ReadSensorData(reader, line)
    IN  /\ loop.driver = "monitoring_loop" /\ loop.pc = "read"
        /\ reader' = o.self
        /\ loop' = Driver("monitoring_loop", "dispatch", o.reading)
        /\ reader_call' = NoConnect
        /\ UNCHANGED reader_hist
        /\ BackoffFrame

\* monitoring_loop, lines 91-114: the fan-out of a reading (get_all_users may
\* raise, which line 121 answers with a sleep of 5 s), or connect() when there
\* is no reading and is_connected() is false.
PacedTickDispatch(opens, fault) ==
    /\ loop.driver = "monitoring_loop" /\ loop.pc = "dispatch"
    /\ IF loop.reading # <<>>
       THEN /\ loop' = Driver("monitoring_loop",
                              IF fault = "list_users" THEN "paused" ELSE "sleep", <<>>)
            /\ reader_call' = NoConnect
            /\ UNCHANGED <<reader, reader_hist>>
       ELSE IF ~IsConnected(reader)
       THEN /\ TimedConnect(opens)
            /\ loop' = Driver("monitoring_loop", "sleep", <<>>)
       ELSE /\ loop' = Driver("monitoring_loop", "sleep", <<>>)
            /\ reader_call' = NoConnect
            /\ UNCHANGED <<reader, reader_hist>>
    /\ BackoffFrame

\* monitoring_loop, line 114: asyncio.sleep(1); line 121: asyncio.sleep(5)
PacedTickSleep ==
    /\ loop.driver = "monitoring_loop" /\ loop.pc \in {"sleep", "paused"}
    /\ loop' = Driver("monitoring_loop", "read", <<>>)
    /\ reader_hist' = Later(IF loop.pc = "sleep" THEN Tenths(1) ELSE Tenths(5))
    /\ reader_call' = NoConnect
    /\ UNCHANGED reader
    /\ BackoffFrame

\* The Link fails under either driver: the handle is closed by disconnect().
\* (A read that raises leaves is_connected() true and leads to no connect().)
LinkDrops ==
    /\ loop.pc \in {"top", "read"}
    /\ IsConnected(reader)
    /\ reader' = Disconnect(reader).self
    /\ reader_call' = NoConnect
    /\ UNCHANGED <<loop, reader_hist>>
    /\ BackoffFrame

InitPace ==
    /\ users = <<>>
    /\ alert_states = <<>>
    /\ now = TimeLine[1]
    /\ call = Call("none", 0, 0)
    /\ before = Tables
    /\ sent = <<>>
    /\ logged = "none"
    /\ raised = "none"
    /\ scenario = <<>>
    /\ rejected = <<>>
    /\ NoEvaluatorCall
    /\ reader = NewReader
    /\ reader_call = NoConnect
    /\ reader_hist = Since(None)
    /\ loop \in {Driver("run", "top", <<>>), Driver("monitoring_loop", "read", <<>>)}
    /\ tick = Absent
    /\ NoFront

NextPace ==
    \/ \E stop \in BOOLEAN, opens \in BOOLEAN : RunTop(stop, opens)
    \/ RunBackoff
    \/ \E line \in LinkReads : RunRead(line)
    \/ \E line \in LinkReads : PacedTickRead(line)
    \/ \E opens \in BOOLEAN, f \in ListFaults : PacedTickDispatch(opens, f)
    \/ PacedTickSleep
    \/ LinkDrops

SpecPace == InitPace /\ [][NextPace]_vars

\* ------------------------------------------------------- tasks, step by step
\* The coroutines of the process between their awaits: one step is what a
\* coroutine does from one await to the next, and the steps of different
\* tasks interleave. main creates one monitoring task (line 183); the
\* Application hands the chat commands to their handlers one at a time (slot
\* "chat"; slot "chat2" is a second /start, as with updates handled
\* concurrently); the tool API runs in a process of its own (slot "tool").
\*
\* tasks.loop is the monitoring task: its position, the number n of the
\* reading of this tick, its humidity, the users still to visit.
\* tasks.pr holds the process_reading invocations in progress, each with what
\* it has read and counted so far; tasks.returned is the one that returned
\* last. tasks.started and tasks.finished give per recipient the number of
\* the last reading for which process_reading was called and has returned,
\* tasks.inorder whether these numbers have only grown. tasks.slots holds the
\* handler or tool call of each slot, tasks.results what the setters answered.

\* Number of readings the monitoring task produces in a run.
MaxTicks == 2

Idle == [op |-> "idle", chat_id |-> 0, value |-> 0, pc |-> "idle", pair |-> <<>>]
Slots == {"chat", "chat2", "tool"}
LoopTask(pc, n, humidity, queue) == [pc |-> pc, n |-> n, humidity |-> humidity, queue |-> queue]

\* process_reading(reading, chat_id) as it is entered.
Invocation(chat_id, n, humidity) ==
    [chat_id |-> chat_id, n |-> n, humidity |-> humidity, pc |-> "select_user",
     user |-> <<>>, alert_state |-> <<>>, new_state |-> "none",
     reads |-> <<>>, sends |-> <<>>, writes |-> 0, logged |-> "none", raised |-> "none"]
NoInvocation == [Invocation(0, 0, 0) EXCEPT !.pc = "none"]

NoTasks ==
    [loop |-> LoopTask("read", 0, 0, <<>>), pr |-> <<>>, returned |-> NoInvocation,
     started |-> [c \in ChatIds |-> 0], finished |-> [c \in ChatIds |-> 0],
     inorder |-> TRUE, slots |-> [s \in Slots |-> Idle], results |-> <<>>]

TasksFrame ==
    UNCHANGED <<now, call, before, sent, logged, raised, scenario, rejected, evalVars,
                readerVars, loopVars, frontVars, delivered>>

\* monitoring_loop, line 97: "await alert_service.process_reading(...)". The
\* loop goes on when the invocation has returned.
AfterCallSpawned(l) ==
    [l EXCEPT !.queue = Tail(@), !.pc = IF Len(l.queue) = 1 THEN "sleep" ELSE "fanout"]

AfterCall(l) == [l EXCEPT !.pc = "await"]

AfterReturn(l) ==
    IF l.pc = "await"
    THEN [l EXCEPT !.queue = Tail(@), !.pc = IF Len(l.queue) = 1 THEN "sleep" ELSE "fanout"]
    ELSE l

\* monitoring_loop, lines 69-70: read_sensor_data() gives the next reading.
TaskRead(humidity) ==
    /\ tasks.loop.pc = "read" /\ tasks.loop.n < MaxTicks
    /\ tasks' = [tasks EXCEPT !.loop = LoopTask("list", tasks.loop.n + 1, humidity, <<>>)]
    /\ UNCHANGED <<users, alert_states>>
    /\ TasksFrame

\* Line 93: get_all_users().
TaskListUsers ==
    LET listed == GetAllUsers(users, "none").users
    IN  /\ tasks.loop.pc = "list"
        /\ tasks' = [tasks EXCEPT !.loop.queue = listed,
                                  !.loop.pc = IF listed = <<>> THEN "sleep" ELSE "fanout"]
        /\ UNCHANGED <<users, alert_states>>
        /\ TasksFrame

\* Line 97: process_reading is called for the next user of the for loop.
TaskCall ==
    LET l == tasks.loop
        c == Head(l.queue)
    IN  /\ l.pc = "fanout"
        /\ tasks' = [tasks EXCEPT !.loop = AfterCall(l),
                                  !.pr = Append(@, Invocation(c, l.n, l.humidity)),
                                  !.started[c] = l.n,
                                  !.inorder = @ /\ l.n > tasks.started[c]]
        /\ UNCHANGED <<users, alert_states>>
        /\ TasksFrame

\* Line 114: asyncio.sleep(1).
TaskSleep ==
    /\ tasks.loop.pc = "sleep"
    /\ tasks' = [tasks EXCEPT !.loop.pc = "read", !.loop.queue = <<>>]
    /\ UNCHANGED <<users, alert_states>>
    /\ TasksFrame

\* The invocation at position i of tasks.pr goes on to its next await, or
\* returns: normally, or through "except Exception", which logs.
Without(seq, i) == SubSeq(seq, 1, i - 1) \o SubSeq(seq, i + 1, Len(seq))
GoesOn(i, inv) == tasks' = [tasks EXCEPT !.pr[i] = inv]
Returns(i, inv, exc) ==
    LET r == [inv EXCEPT !.pc = "returned", !.logged = ExceptHandler(exc).logged,
                         !.raised = ExceptHandler(exc).raised]
    IN  tasks' = [tasks EXCEPT !.pr = Without(@, i),
                               !.returned = r,
                               !.loop = AfterReturn(@),
                               !.finished[inv.chat_id] = inv.n,
                               !.inorder = @ /\ inv.n > tasks.finished[inv.chat_id]]

\* process_reading, lines 182-195: SELECT * FROM users WHERE chat_id = ?
SelectUser(i, fault) ==
    LET inv == [tasks.pr[i] EXCEPT !.reads = Append(@, "users")]
    IN  /\ i \in 1..Len(tasks.pr) /\ tasks.pr[i].pc = "select_user"
        /\ IF fault = "read_user" THEN Returns(i, inv, "ReadError")
           ELSE IF inv.chat_id \notin DOMAIN users THEN Returns(i, inv, "none")
           ELSE GoesOn(i, [inv EXCEPT !.user = <<users[inv.chat_id]>>,
                                      !.pc = "select_state"])
        /\ UNCHANGED <<users, alert_states>>
        /\ TasksFrame

\* Lines 197-219: SELECT * FROM alert_states WHERE chat_id = ?, then
\* determine_state and should_send_alert.
\* (a variant that takes a missing alert_states row for a fresh one)
SelectStateDefaulting(i, fault) ==
    LET inv == [tasks.pr[i] EXCEPT !.reads = Append(@, "alert_states")]
    IN  /\ i \in 1..Len(tasks.pr) /\ tasks.pr[i].pc = "select_state"
        /\ IF fault = "read_state" THEN Returns(i, inv, "ReadError")
           ELSE LET alert_state == IF inv.chat_id \in DOMAIN alert_states
                                   THEN alert_states[inv.chat_id]
                                   ELSE AlertRow("normal", NullTime, NULL)
                    new_state == DetermineState(inv.humidity, inv.user[1])
                    seen == [inv EXCEPT !.new_state = new_state]
                IN  IF ShouldSendAlert(alert_state, new_state, cooldown_seconds, now)
                       /\ (new_state # "normal" \/ alert_state.current_state # "normal")
                    THEN GoesOn(i, [seen EXCEPT !.pc = "send"])
                    ELSE Returns(i, seen, "none")
        /\ UNCHANGED <<users, alert_states>>
        /\ TasksFrame

SelectState(i, fault) ==
    LET inv == [tasks.pr[i] EXCEPT !.reads = Append(@, "alert_states")]
    IN  /\ i \in 1..Len(tasks.pr) /\ tasks.pr[i].pc = "select_state"
        /\ IF fault = "read_state" THEN Returns(i, inv, "ReadError")
           ELSE IF inv.chat_id \notin DOMAIN alert_states THEN Returns(i, inv, "none")
           ELSE LET alert_state == alert_states[inv.chat_id]
                    new_state == DetermineState(inv.humidity, inv.user[1])
                    seen == [inv EXCEPT !.alert_state = <<alert_state>>,
                                        !.new_state = new_state]
                IN  IF ShouldSendAlert(alert_state, new_state, cooldown_seconds, now)
                       /\ (new_state # "normal" \/ alert_state.current_state # "normal")
                    THEN GoesOn(i, [seen EXCEPT !.pc = "send"])
                    ELSE Returns(i, seen, "none")
        /\ UNCHANGED <<users, alert_states>>
        /\ TasksFrame

\* Lines 223-237: await self.bot.send_message(...)
SendFailureIgnored(i, fault) ==
    LET inv == tasks.pr[i]
    IN  /\ i \in 1..Len(tasks.pr) /\ inv.pc = "send"
        /\ IF fault = "send_error"
           THEN GoesOn(i, [inv EXCEPT !.sends = Append(@, "failed"), !.pc = "update"])
           ELSE GoesOn(i, [inv EXCEPT !.sends = Append(@, "delivered"), !.pc = "update"])
        /\ UNCHANGED <<users, alert_states>>
        /\ TasksFrame

Send(i, fault) ==
    LET inv == tasks.pr[i]
    IN  /\ i \in 1..Len(tasks.pr) /\ inv.pc = "send"
        /\ IF fault = "send_error"
           THEN Returns(i, [inv EXCEPT !.sends = Append(@, "failed")], "SendError")
           ELSE GoesOn(i, [inv EXCEPT !.sends = Append(@, "delivered"), !.pc = "update"])
        /\ UNCHANGED <<users, alert_states>>
        /\ TasksFrame

\* Lines 226-239: await self.update_alert_state(...)
Update(i, fault) ==
    LET inv == [tasks.pr[i] EXCEPT !.writes = @ + 1]
        alert_type == IF inv.new_state = "high_humidity" THEN "high"
                      ELSE IF inv.new_state = "low_humidity" THEN "low" ELSE NULL
        u == UpdateAlertState(alert_states, inv.chat_id, inv.new_state, alert_type,
                              now, fault)
    IN  /\ i \in 1..Len(tasks.pr) /\ tasks.pr[i].pc = "update"
        /\ alert_states' = u.rows
        /\ Returns(i, inv, u.exc)
        /\ UNCHANGED users
        /\ TasksFrame

\* start_handler in a slot: get_user, then create_user with its two INSERTs.
Handler(op, chat_id, value, pc) ==
    [op |-> op, chat_id |-> chat_id, value |-> value, pc |-> pc, pair |-> <<>>]
Result(slot, h, ok) ==
    [slot |-> slot, op |-> h.op, chat_id |-> h.chat_id, value |-> h.value, at |-> h.pc,
     ok |-> ok]
Answers(slot, ok) ==
    tasks' = [tasks EXCEPT !.slots[slot] = Idle,
                           !.results = Append(@, Result(slot, tasks.slots[slot], ok))]
MovesTo(slot, pc) == tasks' = [tasks EXCEPT !.slots[slot].pc = pc]

StartCommand(slot, chat_id) ==
    /\ tasks.slots[slot] = Idle
    /\ \A i \in 1..Len(tasks.results) : tasks.results[i].slot # slot
    /\ tasks' = [tasks EXCEPT !.slots[slot] = Handler("start", chat_id, 0, "get_user")]
    /\ UNCHANGED <<users, alert_states>>
    /\ TasksFrame

\* start_handler, line 43
StartGetUser(slot) ==
    LET h == tasks.slots[slot]
    IN  /\ h.op = "start" /\ h.pc = "get_user"
        /\ IF h.chat_id \in DOMAIN users THEN Answers(slot, TRUE)
           ELSE MovesTo(slot, "insert_user")
        /\ UNCHANGED <<users, alert_states>>
        /\ TasksFrame

\* create_user, lines 78-88: INSERT INTO users
StartInsertUser(slot, fault) ==
    LET h == tasks.slots[slot]
    IN  /\ h.op = "start" /\ h.pc = "insert_user"
        /\ IF fault = "insert_user" \/ h.chat_id \in DOMAIN users
           THEN Answers(slot, FALSE) /\ UNCHANGED users
           ELSE /\ users' = InsertRow(users, h.chat_id,
                                      UserRow(DefaultHumidityMin, DefaultHumidityMax))
                /\ MovesTo(slot, "insert_state")
        /\ UNCHANGED alert_states
        /\ TasksFrame

\* create_user, lines 91-95: INSERT INTO alert_states
StartInsertState(slot, fault) ==
    LET h == tasks.slots[slot]
    IN  /\ h.op = "start" /\ h.pc = "insert_state"
        /\ IF fault = "insert_state" \/ h.chat_id \in DOMAIN alert_states
           THEN Answers(slot, FALSE) /\ UNCHANGED alert_states
           ELSE /\ alert_states' = InsertRow(alert_states, h.chat_id,
                                             AlertRow("normal", NullTime, NULL))
                /\ Answers(slot, TRUE)
        /\ UNCHANGED users
        /\ TasksFrame

InitTasks ==
    /\ users = <<>>
    /\ alert_states = <<>>
    /\ now = TimeLine[1]
    /\ call = Call("none", 0, 0)
    /\ before = Tables
    /\ sent = <<>>
    /\ logged = "none"
    /\ raised = "none"
    /\ scenario = <<>>
    /\ rejected = <<>>
    /\ NoEvaluatorCall
    /\ NoReader
    /\ NoLoop
    /\ rate_limit_state = Absent
    /\ time_time = Absent
    /\ sensor_readings = Absent
    /\ request = Absent
    /\ response = Absent
    /\ delivered = Absent
    /\ tasks = NoTasks

TaskHumidity == {5200, 7250}
TaskFaults == {"none", "read_user", "read_state", "send_error", "write"}

NextTasks ==
    \/ \E h \in TaskHumidity : TaskRead(h)
    \/ TaskListUsers
    \/ TaskCall
    \/ TaskSleep
    \/ \E i \in 1..Len(tasks.pr), f \in TaskFaults : SelectUser(i, f)
    \/ \E i \in 1..Len(tasks.pr), f \in TaskFaults : SelectState(i, f)
    \/ \E i \in 1..Len(tasks.pr), f \in TaskFaults : Send(i, f)
    \/ \E i \in 1..Len(tasks.pr), f \in TaskFaults : Update(i, f)
    \/ \E s \in {"chat", "chat2"}, c \in ChatIds : StartCommand(s, c)
    \/ \E s \in {"chat", "chat2"} : StartGetUser(s)
    \/ \E s \in {"chat", "chat2"}, f \in CreateFaults : StartInsertUser(s, f)
    \/ \E s \in {"chat", "chat2"}, f \in CreateFaults : StartInsertState(s, f)

SpecTasks == InitTasks /\ [][NextTasks]_vars

\* ------------------------------------------------------------------- claims
\* The last operation was process_reading for recipient call.chat_id, and the
\* rows of the recipient were loaded: both existed and no read or conversion
\* failed (lines 182-213 of process_reading ran to the end).
IsProcessReading == call.op = "process_reading"

Loaded ==
    /\ IsProcessReading
    /\ call.chat_id \in DOMAIN before.users
    /\ call.chat_id \in DOMAIN before.alert_states
    /\ logged \notin {"ReadError", "ConversionError"}

PreUser == before.users[call.chat_id]
PreState == before.alert_states[call.chat_id]

KindOf(state) ==
    IF state = "high_humidity" THEN "high_alert"
    ELSE IF state = "low_humidity" THEN "low_alert"
    ELSE "recovery"

\* The classification of section 4.3, written from the specification.
Classify(humidity, lo, hi) ==
    CASE humidity > hi -> "high_humidity"
      [] humidity <= hi /\ humidity < lo -> "low_humidity"
      [] OTHER -> "normal"

Target == Classify(call.humidity, PreUser.humidity_min, PreUser.humidity_max)

\* C1: whenever the classification of a processed reading differs from the
\* recipient's stored current_state, process_reading makes exactly one send,
\* whatever last_alert_time is, of the kind that matches the target state
\* (high alert, low alert, recovery), to that recipient; a recovery is never
\* sent to a recipient whose stored state is already normal.
C1_TransitionAlwaysNotifies ==
    Loaded =>
        /\ Target # PreState.current_state =>
              /\ Len(sent) = 1
              /\ sent[1].chat_id = call.chat_id
              /\ sent[1].kind = KindOf(Target)
        /\ PreState.current_state = "normal" =>
              \A i \in 1..Len(sent) : sent[i].kind # "recovery"

\* C1 witness: a recipient that was alerted less than a cooldown ago gets the
\* recovery (flapping inside the cooldown).
C1_Witness ==
    /\ Loaded
    /\ PreState.current_state = "high_humidity"
    /\ PreState.last_alert_time # NullTime
    /\ now - PreState.last_alert_time < cooldown_seconds
    /\ sent = <<[chat_id |-> call.chat_id, kind |-> "recovery", delivered |-> TRUE]>>

\* C2: once an alert is recorded (last_alert_time set), a reading that
\* classifies to the same non-normal state dispatches nothing while fewer than
\* 300 s have elapsed since last_alert_time, and dispatches again when 300 s
\* or more have elapsed (exactly 300 s included).
C2_CooldownThenRepeat ==
    (/\ Loaded
     /\ Target = PreState.current_state
     /\ Target # "normal"
     /\ PreState.last_alert_time # NullTime) =>
        IF now - PreState.last_alert_time < 300
        THEN sent = <<>>
        ELSE /\ Len(sent) = 1
             /\ sent[1].chat_id = call.chat_id
             /\ sent[1].kind = KindOf(Target)

\* C2 witness: a repeat alert goes out exactly 300 s after the previous one.
C2_Witness ==
    /\ Loaded
    /\ Target = PreState.current_state
    /\ Target = "high_humidity"
    /\ PreState.last_alert_time # NullTime
    /\ now - PreState.last_alert_time = 300
    /\ Len(sent) = 1 /\ sent[1].delivered

\* C3: should_send_alert(t, c) on an AlertState s is true when t differs from
\* s.current_state; when t = s.current_state and t is not normal it is true
\* iff last_alert_time is null or at least c seconds have elapsed since it;
\* when t = s.current_state = normal it is false.
C3_ShouldSendAlertContract ==
    ret.fn = "should_send_alert" =>
        LET same == args.new_state = args.current_state
            never == args.last_alert_time = NullTime
            elapsed == args.clock - args.last_alert_time
        IN  /\ ~same => ret.flag
            /\ (same /\ args.new_state # "normal") =>
                  (ret.flag <=> (never \/ elapsed >= args.cooldown))
            /\ (same /\ args.new_state = "normal") => ~ret.flag

\* C3 witness: the same non-normal state, exactly the cooldown after the last
\* alert: the call answers true.
C3_Witness ==
    /\ ret.fn = "should_send_alert"
    /\ args.new_state = "low_humidity" /\ args.current_state = "low_humidity"
    /\ args.last_alert_time # NullTime
    /\ args.clock - args.last_alert_time = args.cooldown
    /\ args.cooldown = cooldown_seconds
    /\ ret.flag

\* C4: determine_state returns exactly one of the three states: high_humidity
\* iff h > max, otherwise low_humidity iff h < min, otherwise normal; with
\* min < max the result is normal iff min <= h <= max.
C4_DetermineStateContract ==
    ret.fn = "determine_state" =>
        LET h == args.humidity
            lo == args.humidity_min
            hi == args.humidity_max
        IN  /\ ret.state \in States
            /\ ret.state = "high_humidity" <=> h > hi
            /\ ret.state = "low_humidity" <=> (~(h > hi) /\ h < lo)
            /\ ret.state = "normal" <=> (~(h > hi) /\ ~(h < lo))
            /\ lo < hi => (ret.state = "normal" <=> (lo <= h /\ h <= hi))

\* C4 witness: a reading exactly on the upper threshold of a valid pair is
\* normal.
C4_Witness ==
    /\ ret.fn = "determine_state"
    /\ args.humidity_min < args.humidity_max
    /\ args.humidity = args.humidity_max
    /\ ret.state = "normal"

\* C5: when process_reading dispatches, the send succeeds and the write goes
\* through, the stored AlertState is: for target normal, state normal with
\* last_alert_time and last_alert_type null; for target high_humidity
\* (low_humidity), that state, last_alert_time = now and last_alert_type
\* "high" ("low"). The end-to-end run 72.5, 72.5 within 300 s, 72.5 after
\* 301 s, 52.0 on thresholds (40, 60) gives high alert, nothing, high alert,
\* recovery, and ends in state normal with last_alert_type null.
ScenarioExpected == <<"high_alert", "nothing", "high_alert", "recovery">>

C6_AlertRowConsistent ==
    \A c \in DOMAIN alert_states :
        LET row == alert_states[c]
        IN  /\ row.current_state = "normal" <=> row.last_alert_type = NULL
            /\ row.last_alert_type = NULL <=> row.last_alert_time = NullTime
            /\ row.current_state = "high_humidity" <=> row.last_alert_type = "high"
            /\ row.current_state = "low_humidity" <=> row.last_alert_type = "low"

\* C6 witness: a recovery has just cleared the row of a recipient that was in
\* the low state, while the other recipient is in the high state.
C6_Witness ==
    /\ Loaded
    /\ PreState.last_alert_type = "low"
    /\ alert_states[call.chat_id] = AlertRow("normal", NullTime, NULL)
    /\ \E b \in DOMAIN alert_states : alert_states[b].last_alert_type = "high"

\* C7: when the send inside process_reading fails with Forbidden (recipient
\* permanently unreachable), the recipient and its AlertState are deleted from
\* the Store.
C7_ForbiddenRemovesRecipient ==
    (IsProcessReading /\ logged = "Forbidden") =>
        /\ call.chat_id \notin DOMAIN users
        /\ call.chat_id \notin DOMAIN alert_states

\* The dispatch rule of section 4.3, written from the specification: a reading
\* of classification target is due for a message at time t.
Due(row, target, t) ==
    \/ target # row.current_state
    \/ /\ target # "normal"
       /\ (row.last_alert_time = NullTime \/ t - row.last_alert_time >= 300)

\* After a send that failed with an error other than Forbidden: the tables are
\* as the call found them, one send was attempted, and a reading of the same
\* classification is due for a send at every later instant.
C8_StateKeptOnSendError ==
    (IsProcessReading /\ logged = "SendError") =>
        /\ users = before.users
        /\ alert_states = before.alert_states
        /\ Len(sent) = 1 /\ ~sent[1].delivered
        /\ \A t \in Instants : t >= now => Due(alert_states[call.chat_id], Target, t)

HighAlertDelivered(c) ==
    /\ IsProcessReading
    /\ call.chat_id = c
    /\ sent = <<[chat_id |-> c, kind |-> "high_alert", delivered |-> TRUE]>>

\* C8: when the send inside process_reading fails with an error other than
\* permanent-unreachable, the recipient row and its AlertState are exactly as
\* before the call, and a reading of the same classification is due for a send
\* again from then on; so while the humidity stays above the maximum and sends
\* succeed again, the recipient eventually gets the high alert.
C8_RetriedUntilDelivered ==
    /\ []C8_StateKeptOnSendError
    /\ \A c \in ChatIds :
          (/\ c \in DOMAIN users /\ c \in DOMAIN alert_states
           /\ alert_states[c].current_state # "high_humidity")
             ~> HighAlertDelivered(c)

\* C8 witness: a send failed with a transient error on a recipient in the
\* normal state, which is still in the normal state.
C8_Witness ==
    /\ IsProcessReading /\ logged = "SendError"
    /\ sent = <<[chat_id |-> call.chat_id, kind |-> "high_alert", delivered |-> FALSE]>>
    /\ alert_states[call.chat_id] = AlertRow("normal", NullTime, NULL)

\* C9: process_reading never lets an exception out: whatever fails (a Store
\* read, a row conversion, the send, the AlertState write), nothing is raised
\* to the caller; a failure before or in the send delivers no message and
\* leaves the Store as it was.
C9_NoExceptionEscapes ==
    IsProcessReading =>
        /\ raised = "none"
        /\ logged \in {"ReadError", "ConversionError"} => sent = <<>>
        /\ logged \in {"ReadError", "ConversionError", "Forbidden", "SendError"} =>
              /\ \A i \in 1..Len(sent) : ~sent[i].delivered
              /\ users = before.users
              /\ alert_states = before.alert_states

\* C9 witness: the AlertState write failed after a delivered message, and the
\* call returned normally.
C9_Witness ==
    /\ IsProcessReading
    /\ logged = "WriteError"
    /\ Len(sent) = 1 /\ sent[1].delivered
    /\ raised = "none"

\* C10: process_reading for recipient A sends only to A and changes neither
\* the thresholds of anyone nor the AlertState of any B # A; whether it sends
\* is decided by the reading, A's thresholds and A's AlertState alone.
C10_RecipientIsolation ==
    IsProcessReading =>
        /\ users = before.users
        /\ DOMAIN alert_states = DOMAIN before.alert_states
        /\ \A b \in DOMAIN alert_states :
              b # call.chat_id => alert_states[b] = before.alert_states[b]
        /\ \A i \in 1..Len(sent) : sent[i].chat_id = call.chat_id
        /\ Loaded => (sent # <<>> <=> Due(PreState, Target, now))

\* C10 witness: the reading 65.0 alerted the recipient with maximum 60 and,
\* processed next for the recipient with maximum 70, sends nothing.
C10_Witness ==
    /\ Loaded /\ call.humidity = 6500 /\ logged = "none" /\ sent = <<>>
    /\ PreUser.humidity_max = 7000
    /\ alert_states[call.chat_id].current_state = "normal"
    /\ \E b \in DOMAIN alert_states :
          /\ b # call.chat_id
          /\ users[b].humidity_max = 6000
          /\ alert_states[b] = AlertRow("high_humidity", now, "high")

\* ------------------------------------------------------ claims: Link Reader
\* min(2^n, 60) of the specification.
SpecBackoff(n) == IF 2 ^ n < 60 THEN 2 ^ n ELSE 60

IsConnect == reader_call.op = "connect"
IsDisconnect == reader_call.op = "disconnect"
IsRead == reader_call.op = "read_sensor_data"

\* C11: after n failed connect() calls in a row since creation or since the
\* last successful connect, reconnect_attempts = n and backoff_delay =
\* min(2^n, 60); a failed connect never lowers backoff_delay, which stays
\* within [1, 60]; a successful connect resets reconnect_attempts to 0 and
\* backoff_delay to 1.
C11_BackoffFollowsFailures ==
    LET cs == reader.connection_state
        n == reader_hist.failures
    IN  /\ cs.reconnect_attempts = n
        /\ cs.backoff_delay = SpecBackoff(n)
        /\ cs.backoff_delay >= 1 /\ cs.backoff_delay <= 60
        /\ (IsConnect /\ ~reader_call.ok) =>
              cs.backoff_delay >= reader_call.before.connection_state.backoff_delay
        /\ (IsConnect /\ reader_call.ok) =>
              cs.reconnect_attempts = 0 /\ cs.backoff_delay = 1

\* C11 witness: a connect succeeds after so many failures that the delay had
\* reached its cap.
C11_Witness ==
    /\ IsConnect /\ reader_call.ok
    /\ reader_call.before.connection_state.reconnect_attempts >= 6
    /\ reader_call.before.connection_state.backoff_delay = 60
    /\ reader.connection_state.backoff_delay = 1

C13_ReadFailureDisconnects ==
    (IsRead /\ IsConnected(reader_call.before)) =>
        /\ reader_call.raised = "none"
        /\ reader_call.input.kind = "raise" =>
              reader_call.reading = <<>> /\ ~IsConnected(reader)
        /\ reader_call.input.kind \in {"garbage", "empty"} =>
              reader_call.reading = <<>> /\ IsConnected(reader)

\* C14: get_latest_reading() returns the last reading that was read and
\* parsed, empty only if there was none; a failed read, a line that does not
\* parse, a failed connect and a disconnect leave it as it was.
C14_LatestReadingKept ==
    /\ reader.latest_reading = reader_hist.parsed
    /\ \/ IsDisconnect
       \/ IsConnect
       \/ IsRead /\ reader_call.reading = <<>>
       => reader.latest_reading = reader_call.before.latest_reading

\* C14 witness: a read raises on a reader that holds a reading, and the
\* reading is still there.
C14_Witness ==
    /\ IsRead /\ reader_call.input.kind = "raise"
    /\ IsConnected(reader_call.before)
    /\ reader_call.before.latest_reading # <<>>
    /\ reader.latest_reading = reader_call.before.latest_reading

Kinds(broadcasts) == [i \in 1..Len(broadcasts) |-> broadcasts[i].kind]

\* "Connection lost" and "connection restored" broadcasts alternate.
BroadcastsAlternate ==
    Len(loop.broadcasts) = 2 => loop.broadcasts[1] # loop.broadcasts[2]

\* C16: every connectivity edge met by a tick, a loss caused by a read that
\* raised included, produces exactly one broadcast of its kind, a tick without
\* an edge produces none, and lost and restored broadcasts alternate.
C16_EveryEdgeBroadcastOnce ==
    /\ loop.pc = "dispatch" =>
          /\ tick.edge = "lost" => Kinds(tick.broadcasts) = <<"lost">>
          /\ tick.edge = "restored" => Kinds(tick.broadcasts) = <<"restored">>
          /\ tick.edge = "none" => tick.broadcasts = <<>>
    /\ BroadcastsAlternate

\* C17: in a tick that produced a reading, process_reading is called once for
\* every recipient registered when the users were fetched, in their order, and
\* goes on to the next recipient whatever failed for the one before: the tick
\* never ends, and never pauses, with a recipient left out.
C17_EveryRecipientProcessed ==
    /\ loop.pc = "fanout" =>
          /\ loop.queue # <<>>
          /\ tick.processed \o loop.queue = tick.listed
    /\ (loop.pc \in {"fanout", "sleep"} /\ loop.reading # <<>>) =>
          tick.listed = Ascending(tick.registered)
    /\ (loop.pc = "sleep" /\ loop.reading # <<>>) => tick.processed = tick.listed
    /\ loop.pc = "paused" => tick.processed = <<>> /\ tick.exc = "ListError"

\* C17 witness: a tick over two recipients is through, and processing the
\* first of them had failed.
C17_Witness ==
    /\ loop.pc = "sleep" /\ loop.reading # <<>>
    /\ tick.processed = <<11111, 22222>>
    /\ tick.failed = <<11111>>

\* C18: the loop is left only after a cancellation, and a pause that follows
\* an exception inside a tick is followed by the next tick unless the task is
\* cancelled.
C18_OnlyCancellationEndsLoop ==
    /\ [](loop.pc \in {"exited", "stopped"} => loop.cancelled)
    /\ (loop.pc = "paused") ~> (loop.pc = "read" \/ loop.cancelled)

\* C18 witness: the Store failed to list the recipients, the loop paused, and
\* the read of the next tick has been made.
C18_Witness ==
    /\ tick.resumed
    /\ loop.pc = "dispatch"
    /\ ~loop.cancelled

\* C19: when the task of the loop exits after the stop signal, the Link has
\* been disconnected.
C19_DisconnectedAtExit ==
    loop.pc = "exited" => ~IsConnected(reader)

\* ---------------------------------------------- claims: UserSettingsService
\* Every row of table users satisfies 0 <= humidity_min < humidity_max <= 100.
UsersRowsValid ==
    \A c \in DOMAIN users :
        /\ 0 <= users[c].humidity_min
        /\ users[c].humidity_min < users[c].humidity_max
        /\ users[c].humidity_max <= 10000

\* C20: create_user, update_user_threshold, update_user_settings and
\* create_or_update_user hand a pair of thresholds to a Store write only if
\* 0 <= humidity_min < humidity_max <= 100, so that the Store never has to
\* refuse one, and every recipient in the Store satisfies
\* 0 <= humidity_min < humidity_max <= 100.
C20_WritesOnlyValidPairs ==
    /\ \A i \in 1..Len(rejected) :
          /\ 0 <= rejected[i][1]
          /\ rejected[i][1] < rejected[i][2]
          /\ rejected[i][2] <= 10000
    /\ UsersRowsValid

\* ------------------------------------------------- claims: commands, tools
ChatSetters == {"set_humidity_min", "set_humidity_max"}
ToolSetters == {"tool_set_humidity_min", "tool_set_humidity_max"}
MinSetters == {"set_humidity_min", "tool_set_humidity_min"}
MaxSetters == {"set_humidity_max", "tool_set_humidity_max"}

\* The answers that tell the caller the thresholds were changed.
Confirmations == {"updated", "ok"}

\* A threshold that is a number of [0, 100].
InRange(v) == v # NaN /\ v >= HumidityLowerBound /\ v <= HumidityUpperBound

\* The recipient of the last request had a row when the request arrived.
Registered == request.chat_id \in DOMAIN before.users

\* The pair the last request asks to store: the pair given to
\* update_user_threshold, or the value of a setter with the opposite bound
\* of the recipient's row.
RequestedPair ==
    IF request.op = "update_user_threshold" THEN request.arg.value
    ELSE IF request.op \in MinSetters
    THEN <<request.arg.value, before.users[request.chat_id].humidity_max>>
    ELSE <<before.users[request.chat_id].humidity_min, request.arg.value>>

\* The last request is a threshold update that has to be rejected: argument
\* missing or not a number, unknown recipient, a value outside [0, 100], or
\* min >= max.
InvalidUpdate ==
    \/ request.arg.kind \in {"missing", "text"}
    \/ ~Registered
    \/ ~InRange(RequestedPair[1])
    \/ ~InRange(RequestedPair[2])
    \/ RequestedPair[1] >= RequestedPair[2]

TablesUnchanged == users = before.users /\ alert_states = before.alert_states

\* C21: a threshold update that has to be rejected, made through
\* update_user_threshold, a chat setter or a setter of the tool API, is not
\* answered with a confirmation; and every threshold update that is not
\* answered with a confirmation leaves the thresholds and the AlertState of
\* every recipient as they were.
C21_RejectedUpdateChangesNothing ==
    request.op \in ChatSetters \cup ToolSetters \cup {"update_user_threshold"} =>
        /\ response.kind # "none"
        /\ InvalidUpdate => response.kind \notin Confirmations
        /\ response.kind \notin Confirmations => TablesUnchanged

\* C21 witness: /set_humidity_min 60 of a recipient whose maximum is 60, at a
\* moment the rate limiter lets it through, is answered with the explanation
\* and the row stays (40, 60); the recipient has an AlertState.
C21_Witness ==
    /\ request.op = "set_humidity_min"
    /\ request.arg = Arg("number", 6000)
    /\ response.kind = "min_not_below_max"
    /\ request.chat_id \in DOMAIN alert_states
    /\ users[request.chat_id] = UserRow(4000, 6000)

\* An operation of the Store was going to fail during the last request.
StoreFailed == request.fault # "none"

\* C22: set_humidity_min(recipient, v), as a tool and as a chat command that
\* the rate limiter lets through, is confirmed only if the recipient exists,
\* 0 <= v <= 100 and v < the current humidity_max, and then the stored pair is
\* (v, previous max) and is the pair in the answer; when these hold it is
\* confirmed unless a Store operation fails. Symmetrically for
\* set_humidity_max with v > the current humidity_min and (previous min, v).
C22_SetterContract ==
    (/\ request.op \in MinSetters \cup MaxSetters
     /\ request.arg.kind = "number"
     /\ response.kind # "wait") =>
        LET c == request.chat_id
            v == request.arg.value
            accepted == /\ Registered
                        /\ InRange(v)
                        /\ IF request.op \in MinSetters
                           THEN v < before.users[c].humidity_max
                           ELSE v > before.users[c].humidity_min
            pair == IF request.op \in MinSetters
                    THEN <<v, before.users[c].humidity_max>>
                    ELSE <<before.users[c].humidity_min, v>>
        IN  /\ response.kind \in Confirmations => accepted
            /\ (accepted /\ ~StoreFailed) => response.kind \in Confirmations
            /\ response.kind \in Confirmations =>
                  /\ users = [before.users EXCEPT ![c] = UserRow(pair[1], pair[2])]
                  /\ response.thresholds = pair

\* C22 witness: the tool sets the minimum of a recipient whose maximum was
\* raised to 70 before: the row becomes (35, 70).
C22_Witness ==
    /\ request.op = "tool_set_humidity_min"
    /\ response.kind = "ok"
    /\ before.users[request.chat_id] = UserRow(4000, 7000)
    /\ users[request.chat_id] = UserRow(3500, 7000)
    /\ response.thresholds = <<3500, 7000>>

C23_FirstStart ==
    /\ request.op = "start"
    /\ ~Registered
    /\ response.kind = "welcome"

Commands == {"start", "help", "sensors", "settings", "set_humidity_min",
             "set_humidity_max"}

\* C24: every chat command (start, help, sensors, settings, set_humidity_min,
\* set_humidity_max) is rate-limited per recipient: when a command of a
\* recipient ran its handler body and the recipient sends a command less than
\* 3 seconds later, the answer is "please wait N seconds" with N >= 1 and
\* the tables stay as they were.
C24_EveryCommandRateLimited ==
    [][(/\ request.op \in Commands
        /\ response.kind # "wait"
        /\ request'.op \in Commands
        /\ request'.chat_id = request.chat_id
        /\ request'.at - request.at < RateLimitSeconds)
       => (/\ response'.kind = "wait"
           /\ response'.wait >= 1
           /\ users' = users
           /\ alert_states' = alert_states)]_vars

\* What holds of the commands that are decorated with @rate_limit: one that
\* arrives less than 3 seconds after the recipient's last accepted one is
\* answered "please wait N seconds", N >= 1, and changes nothing; any other
\* runs its body and becomes the last accepted one.
Decorated == Commands \ {"start", "help"}

DecoratedCommandsRateLimited ==
    request.op \in Decorated =>
        LET c == request.chat_id
            recent == /\ c \in DOMAIN request.limiter
                      /\ request.at - request.limiter[c] < RateLimitSeconds
        IN  IF recent
            THEN /\ response.kind = "wait"
                 /\ response.wait >= 1
                 /\ TablesUnchanged
                 /\ rate_limit_state = request.limiter
            ELSE /\ response.kind # "wait"
                 /\ rate_limit_state[c] = request.at

\* The rows of the history that no other row is newer than.
Newest(rows) ==
    {rows[i] : i \in {k \in DOMAIN rows :
                        \A j \in DOMAIN rows : rows[j].recorded_at <= rows[k].recorded_at}}

\* What get_current_reading has to answer for the history as it is.
CurrentReadingAsSpecified ==
    /\ response.kind = "ok"
    /\ IF sensor_readings = <<>>
       THEN /\ response.status = "no_data"
            /\ response.reading = <<>>
            /\ response.age_seconds = None
            /\ response.is_stale
       ELSE /\ response.reading # <<>>
            /\ response.reading[1] \in Newest(sensor_readings)
            /\ response.age_seconds >= 0
            /\ 10 * response.age_seconds <= time_time - response.reading[1].recorded_at
            /\ 10 * (response.age_seconds + 1) > time_time - response.reading[1].recorded_at
            /\ response.is_stale = (response.age_seconds > stale_after_seconds)
            /\ response.status = (IF response.is_stale THEN "stale" ELSE "ok")

\* C25: get_current_reading, when the Store does not fail, answers no_data
\* with reading null, age_seconds null and is_stale true when the history is
\* empty, and otherwise the newest reading with age_seconds >= 0, is_stale =
\* (age_seconds > 10) and status stale iff is_stale, else ok.
C25_CurrentReadingContract ==
    (request.op = "get_current_reading" /\ request.fault = "none") =>
        CurrentReadingAsSpecified

\* What holds of get_current_reading: the answer is as specified when the
\* chat_id given is that of a registered recipient.
CurrentReadingOfRegistered ==
    (request.op = "get_current_reading" /\ request.fault = "none" /\ Registered) =>
        CurrentReadingAsSpecified

\* A reading that is 10.5 s old is answered with age_seconds 10 and is not
\* stale.
CurrentReadingAtBoundary ==
    /\ request.op = "get_current_reading"
    /\ response.kind = "ok"
    /\ response.reading # <<>>
    /\ time_time - response.reading[1].recorded_at = 105
    /\ response.age_seconds = stale_after_seconds
    /\ response.status = "ok"

\* The rows of the history that are at most the given minutes old.
InWindow(minutes) ==
    {i \in DOMAIN sensor_readings :
        sensor_readings[i].recorded_at >= time_time - minutes * 600}

C26_Truncated ==
    /\ request.op = "get_recent_readings"
    /\ request.arg.value = <<1, 1>>
    /\ response.kind = "ok"
    /\ Cardinality(InWindow(1)) = 2
    /\ response.count = 1

\* ------------------------------------------------------ claims: parser
ParserCalled == response # NoResponse /\ request \in ParserInputs

\* The payload is a JSON object that holds, for every field, a number or a
\* numeric string within the field's range under the key the parser reads,
\* and no timestamp or one that is an ISO 8601 string not in the future.
FieldKeys == {"humidity", "dht_temperature", "lm35_temperature", "thermistor_temperature"}
FieldOf(data, field) ==
    IF data[field] # Missing \/ field = "humidity" THEN data[field]
    ELSE data[SENSOR_FIELD_ALIASES[field][2]]
InFieldRange(field, v) ==
    IF field = "humidity" THEN v >= 0 /\ v <= 100000 ELSE v >= -40000 /\ v <= 125000
UtcOf(timestamp) ==
    IF timestamp.kind = "iso_offset" THEN timestamp.v - ZoneOffset ELSE timestamp.v
WellFormed(data) ==
    /\ data.shape = "dict"
    /\ \A field \in FieldKeys :
          /\ FieldOf(data, field).kind \in {"number", "numeric_string"}
          /\ InFieldRange(field, FieldOf(data, field).v)
    /\ \/ data.timestamp.kind \in {"missing", "null"}
       \/ /\ data.timestamp.kind \in {"iso_naive", "iso_utc", "iso_offset"}
          /\ UtcOf(data.timestamp) <= time_time

\* C27: parse_sensor_data never raises: whatever the line (a field missing,
\* a value that is not a number or is a number too large to represent, a
\* malformed timestamp or one that is not a string, a value out of range, a
\* timestamp in the future), it returns the empty result; it returns a Reading
\* only for a well-formed payload whose values are in range.
C27_ParserNeverRaises ==
    ParserCalled =>
        /\ response.parsed.raised = "none"
        /\ response.parsed.reading # <<>> => WellFormed(request)

\* The lines on which the parser leaves by an exception: an integer literal
\* beyond the range of a float under a key it reads, a timestamp at the edge
\* of the calendar, a text nested too deep or with too long an integer.
Escapes(data) ==
    \/ data.shape \in {"deep", "digits"}
    \/ /\ data.shape = "dict"
       \/ \E field \in FieldKeys : FieldOf(data, field).kind = "huge_int"
       \/ data.timestamp.kind = "iso_edge"

\* On every other line the parser returns, and returns a Reading exactly for
\* the well-formed payloads.
ParserTotalElsewhere ==
    (ParserCalled /\ ~Escapes(request)) =>
        /\ response.parsed.raised = "none"
        /\ response.parsed.reading # <<>> <=> WellFormed(request)

\* The parser raised on a payload that is well formed but for one value.
ParserRaised ==
    /\ ParserCalled
    /\ request.shape = "dict"
    /\ request.humidity = Json("huge_int", 0)
    /\ response.parsed.raised = "OverflowError"

\* The values of the example line, under the canonical keys or the aliases.
ExampleValues(data) ==
    /\ data.humidity = Number(56000)
    /\ FieldOf(data, "dht_temperature") = Number(23400)
    /\ FieldOf(data, "lm35_temperature") = Number(24930)
    /\ FieldOf(data, "thermistor_temperature") = Number(22730)
    /\ \A field \in FieldKeys \ {"humidity"} :
          data[field] = Missing \/ data[SENSOR_FIELD_ALIASES[field][2]] = Missing
    /\ data.timestamp = Missing
ExampleReading == SensorReading(56000, 23400, 24930, 22730, time_time)

\* C28: the parser accepts both wire shapes: the labeled text line
\* 'Humidity: 56.00%  DHT Temp: 23.40C  LM35: 24.93C  Therm: 22.73C' and the
\* flat key-value payload with the canonical keys or the aliases both give the
\* Reading (56.00, 23.40, 24.93, 22.73), and read_sensor_data on a Link that
\* delivers the labeled line returns that Reading.
C28_BothShapesParsed ==
    (ParserCalled /\ request.shape \in {"labeled", "dict"} /\ ExampleValues(request)) =>
        /\ response.parsed = Parsed(<<ExampleReading>>)
        /\ response.read = <<ExampleReading.humidity>>

\* The flat key-value payload alone gives the Reading, to the parser and to
\* the reader.
FlatPayloadParsed ==
    (ParserCalled /\ request.shape = "dict" /\ ExampleValues(request)) =>
        /\ response.parsed = Parsed(<<ExampleReading>>)
        /\ response.read = <<ExampleReading.humidity>>

\* The aliases were read.
AliasesParsed ==
    /\ ParserCalled /\ request.shape = "dict" /\ ExampleValues(request)
    /\ request.dht_temperature = Missing
    /\ response.parsed.reading # <<>>

\* The labeled line was given to the parser and to the reader.
LabeledLineRefused ==
    /\ ParserCalled /\ request = LabeledLine
    /\ response.parsed = Parsed(<<>>)
    /\ response.read = <<>>

\* ------------------------------------------- claims: cooldown, frame
\* C29: for every recipient, in every run, also one in which the AlertState
\* write fails after the message was sent, two delivered messages of the same
\* alert kind with no change of the class of the readings in between are at
\* least cooldown_seconds (300 s) apart.
C29_RepeatsAreSpaced ==
    \A c \in DOMAIN delivered :
        delivered[c].gap # NullTime => delivered[c].gap >= cooldown_seconds

\* Two such messages are closer than the cooldown only after a delivery whose
\* AlertState write failed.
RepeatsAreSpacedWhenPersisted ==
    \A c \in DOMAIN delivered :
        (delivered[c].gap # NullTime /\ ~delivered[c].after_lost) =>
            delivered[c].gap >= cooldown_seconds

\* A repeat was delivered after the cooldown, every write having succeeded.
RepeatAfterCooldown ==
    \E c \in DOMAIN delivered :
        /\ delivered[c].gap >= cooldown_seconds
        /\ ~delivered[c].after_lost /\ delivered[c].kind = "high_alert"

\* The same alert was delivered twice within the cooldown to one recipient.
RepeatWithinCooldown ==
    \E c \in DOMAIN delivered :
        /\ delivered[c].gap # NullTime /\ delivered[c].gap < cooldown_seconds
        /\ delivered[c].after_lost

\* The step is a process_reading for chat_id that delivered a message.
DeliveringStep(chat_id) ==
    /\ call' = Call("process_reading", chat_id, call'.humidity)
    /\ before' = Tables
    /\ sent' # <<>> /\ sent'[1].delivered /\ sent'[1].chat_id = chat_id

\* C30: the AlertState of a recipient (current_state, last_alert_time,
\* last_alert_type) changes only in a process_reading for that recipient in
\* which a message was sent successfully first: no threshold update, start
\* command, connectivity broadcast, tool API call, and no process_reading
\* without a successful send, modifies it.
C30_AlertStateFrame ==
    [][\A c \in DOMAIN alert_states :
          (c \notin DOMAIN alert_states' \/ alert_states'[c] # alert_states[c])
              => DeliveringStep(c)]_vars

\* C30 witness: a process_reading that delivered a message has changed the
\* AlertState of its recipient.
C30_Witness ==
    /\ call.op = "process_reading"
    /\ call.chat_id \in DOMAIN before.alert_states
    /\ alert_states[call.chat_id] # before.alert_states[call.chat_id]
    /\ Len(sent) = 1 /\ sent[1].delivered /\ sent[1].chat_id = call.chat_id

\* The thresholds of a recipient in alert were changed, so that the alert
\* no longer fits them, and the AlertState stayed.
ThresholdsChangedInAlert ==
    /\ call.op = "update_user_threshold" /\ raised = "none"
    /\ call.chat_id \in DOMAIN before.alert_states
    /\ users[call.chat_id] # before.users[call.chat_id]
    /\ alert_states[call.chat_id].current_state = "high_humidity"
    /\ users[call.chat_id].humidity_max = 8000

\* A broadcast reached a recipient in alert.
BroadcastInAlert ==
    /\ call.op = "notify_all_users"
    /\ \E i \in 1..Len(sent) :
          /\ sent[i].delivered
          /\ sent[i].chat_id \in DOMAIN alert_states
          /\ alert_states[sent[i].chat_id].current_state # "normal"

\* A registered recipient in alert sent /start again.
StartInAlert ==
    /\ request # NoRequest /\ request.op = "start"
    /\ request.chat_id \in DOMAIN alert_states
    /\ alert_states[request.chat_id].current_state # "normal"

\* ------------------------------------- claims: reconnect, backoff, ordering
\* A tick without a reading has come to its sleep.
TickWithoutReading ==
    loop.pc = "sleep" /\ loop.reading = <<>> /\ tick.exc = "none"

\* C31: when the Link is disconnected while the monitoring loop runs, also
\* through a read that raised an I/O exception on an open Link, the loop calls
\* connect() in that tick and in every later tick without a reading until a
\* connect succeeds: a tick without a reading that ends with the Link still
\* marked disconnected has made a connect() that failed.
C31_ReconnectEveryTick ==
    (TickWithoutReading /\ ~reader.connection_state.is_connected) =>
        reader.connection_state.reconnect_attempts >= 1

\* The loop does call connect() in every tick without a reading in which
\* is_connected() is false.
ReconnectWhenHandleClosed ==
    (TickWithoutReading /\ ~IsConnected(reader)) =>
        /\ ~reader.connection_state.is_connected
        /\ reader.connection_state.reconnect_attempts >= 1

\* A tick without a reading ended after a connect() that failed twice over.
ReconnectFailedAgain ==
    /\ TickWithoutReading /\ ~IsConnected(reader)
    /\ reader.connection_state.reconnect_attempts >= 2

\* A read raised on an open Link and the tick ended without a connect().
ReadFailureLeftAlone ==
    /\ TickWithoutReading
    /\ IsConnected(reader) /\ ~reader.connection_state.is_connected
    /\ reader.connection_state.reconnect_attempts = 0

\* The last step was a connect() that followed a connect() that failed.
Reattempt == reader_call.op = "connect" /\ reader_call.gap # None

\* C32: in both drivers, the run loop of the reader and the monitoring loop,
\* the connect() after a failed connect() comes no earlier than the
\* backoff_delay that the failure left, in seconds, later.
C32_ReconnectsBackOff ==
    Reattempt => reader_call.gap >= reader_call.due

\* The run loop of the reader keeps the backoff.
RunLoopBacksOff ==
    (Reattempt /\ loop.driver = "run") => reader_call.gap >= reader_call.due

\* The run loop made a connect() after the longest backoff.
RunLoopWaitedLongest ==
    /\ Reattempt /\ loop.driver = "run"
    /\ reader_call.due = Tenths(MaxBackoffDelay)
    /\ reader_call.gap = reader_call.due

\* The monitoring loop made a connect() one second after a failed one, with
\* a backoff_delay of two seconds.
MonitoringLoopHurried ==
    /\ Reattempt /\ loop.driver = "monitoring_loop"
    /\ reader_call.gap = Tenths(1) /\ reader_call.due = Tenths(2)

\* ------------------------------------------- process_reading, called alone
\* process_reading called directly, as tests/test_alert_manager.py does, for
\* any chat_id, registered or not, one invocation after the other, against a
\* Store whose rows were written by earlier runs.
DirectCall(chat_id, humidity) ==
    /\ tasks.pr = <<>> /\ tasks.loop.n < MaxTicks
    /\ tasks' = [tasks EXCEPT !.loop.n = @ + 1,
                              !.pr = <<Invocation(chat_id, tasks.loop.n + 1, humidity)>>,
                              !.started[chat_id] = tasks.loop.n + 1]
    /\ before' = Tables
    /\ UNCHANGED <<users, alert_states, now, call, sent, logged, raised, scenario, rejected,
                   evalVars, readerVars, loopVars, frontVars, delivered>>

\* The rows the Store may hold when process_reading is called: a recipient
\* fully registered, in or out of alert, one whose second INSERT failed,
\* none at all.
StoredRows ==
    {[users |-> <<>>, alert_states |-> <<>>],
     [users |-> Commander :> UserRow(DefaultHumidityMin, DefaultHumidityMax),
      alert_states |-> <<>>],
     [users |-> Commander :> UserRow(DefaultHumidityMin, DefaultHumidityMax),
      alert_states |-> Commander :> AlertRow("normal", NullTime, NULL)],
     [users |-> Commander :> UserRow(DefaultHumidityMin, DefaultHumidityMax),
      alert_states |-> Commander :> AlertRow("high_humidity", 0, "high")]}

InitInvocation ==
    /\ \E rows \in StoredRows : users = rows.users /\ alert_states = rows.alert_states
    /\ now = TimeLine[1]
    /\ call = Call("none", 0, 0)
    /\ before = Tables
    /\ sent = <<>>
    /\ logged = "none"
    /\ raised = "none"
    /\ scenario = <<>>
    /\ rejected = <<>>
    /\ NoEvaluatorCall
    /\ NoReader
    /\ NoLoop
    /\ rate_limit_state = Absent
    /\ time_time = Absent
    /\ sensor_readings = Absent
    /\ request = Absent
    /\ response = Absent
    /\ delivered = Absent
    /\ tasks = [NoTasks EXCEPT !.loop.pc = "direct"]

DirectHumidity == {3000, 5200, 7250}

NextInvocation ==
    \/ \E c \in ChatIds, h \in DirectHumidity : DirectCall(c, h)
    \/ \E f \in TaskFaults : SelectUser(1, f)
    \/ \E f \in TaskFaults : SelectState(1, f)
    \/ \E f \in TaskFaults : Send(1, f)
    \/ \E f \in TaskFaults : Update(1, f)

SpecInvocation == InitInvocation /\ [][NextInvocation]_vars

\* ------------------------------------------ the loop and the reading history
\* The monitoring loop of the bot and get_current_reading of the tool API
\* over the same Store. No statement of monitoring_loop, of the reader or of
\* the AlertManager calls insert_reading: the loop's actions leave
\* sensor_readings as it is.
InitHistory ==
    /\ users = <<>>
    /\ alert_states = <<>>
    /\ now = TimeLine[1]
    /\ call = Call("none", 0, 0)
    /\ before = Tables
    /\ sent = <<>>
    /\ logged = "none"
    /\ raised = "none"
    /\ scenario = <<>>
    /\ rejected = <<>>
    /\ NoEvaluatorCall
    /\ reader = NewReader
    /\ reader_call = NoReaderCall
    /\ reader_hist = NoReaderHist
    /\ loop = NewLoop
    /\ tick = NewTick
    /\ rate_limit_state = <<>>
    /\ time_time = 0
    /\ sensor_readings = <<>>
    /\ request = NoRequest
    /\ response = NoResponse
    /\ delivered = Absent
    /\ tasks = Absent

NextHistory ==
    \/ \E opens \in BOOLEAN : MainConnect(opens)
    \/ LoopStart
    \/ \E line \in LinkReads : TickRead(line, "none")
    \/ \E f \in ListFaults : TickListUsers(f)
    \/ TickProcess("none")
    \/ \E opens \in BOOLEAN : TickReconnect(opens, "none")
    \/ TickSleep
    \/ TickResume
    \/ CreateUser(Commander, DefaultHumidityMin, DefaultHumidityMax, "none")
    \/ \E c \in ChatIds : GetCurrentReading(c, "none")

SpecHistory == InitHistory /\ [][NextHistory]_vars

\* ------------------------------------------------- the setters, step by step
\* set_humidity_min and set_humidity_max, from the chat ("chat") and from the
\* tool API ("tool"), between their awaits: the range check, get_user and the
\* order check of the caller, then update_user_threshold with its own
\* get_user and its UPDATE of both columns.
Setters == {"set_humidity_min", "set_humidity_max"}

SetterCall(slot, op, chat_id, value) ==
    /\ tasks.slots[slot] = Idle
    /\ \A x \in Slots : tasks.slots[x].op # op
    /\ \A i \in 1..Len(tasks.results) : tasks.results[i].op # op
    /\ IF value < HumidityLowerBound \/ value > HumidityUpperBound
       THEN tasks' = [tasks EXCEPT !.results =
                         Append(@, Result(slot, Handler(op, chat_id, value, "range"), FALSE))]
       ELSE tasks' = [tasks EXCEPT !.slots[slot] = Handler(op, chat_id, value, "get_user")]
    /\ UNCHANGED <<users, alert_states>>
    /\ TasksFrame

\* settings.py:128-145, 221-238; server.py:106-110, 127-131: the pair to
\* store is the new value and the other threshold as it was read here.
SetterGetUser(slot) ==
    LET h == tasks.slots[slot]
        user == users[h.chat_id]
    IN  /\ h.op \in Setters /\ h.pc = "get_user"
        /\ IF h.chat_id \notin DOMAIN users THEN Answers(slot, FALSE)
           ELSE IF h.op = "set_humidity_min"
           THEN IF h.value >= user.humidity_max THEN Answers(slot, FALSE)
                ELSE tasks' = [tasks EXCEPT
                                  !.slots[slot].pair = <<h.value, user.humidity_max>>,
                                  !.slots[slot].pc = "update_get_user"]
           ELSE IF h.value <= user.humidity_min THEN Answers(slot, FALSE)
                ELSE tasks' = [tasks EXCEPT
                                  !.slots[slot].pair = <<user.humidity_min, h.value>>,
                                  !.slots[slot].pc = "update_get_user"]
        /\ UNCHANGED <<users, alert_states>>
        /\ TasksFrame

\* update_user_threshold, lines 190-203: validation, then get_user.
SetterUpdateGetUser(slot) ==
    LET h == tasks.slots[slot]
    IN  /\ h.op \in Setters /\ h.pc = "update_get_user"
        /\ IF ~ThresholdsPass(h.pair[1], h.pair[2]) \/ h.chat_id \notin DOMAIN users
           THEN Answers(slot, FALSE)
           ELSE MovesTo(slot, "update")
        /\ UNCHANGED <<users, alert_states>>
        /\ TasksFrame

\* update_user_threshold, lines 205-229: UPDATE users SET humidity_min,
\* humidity_max WHERE chat_id.
SetterUpdate(slot, fault) ==
    LET h == tasks.slots[slot]
    IN  /\ h.op \in Setters /\ h.pc = "update"
        /\ IF fault = "update" THEN Answers(slot, FALSE) /\ UNCHANGED users
           ELSE /\ users' = [c \in DOMAIN users |->
                                IF c = h.chat_id THEN UserRow(h.pair[1], h.pair[2])
                                ELSE users[c]]
                /\ Answers(slot, TRUE)
        /\ UNCHANGED alert_states
        /\ TasksFrame

SetterValues == [set_humidity_min |-> {3500, 5000}, set_humidity_max |-> {7000, 4500}]
SetterSlots == {"chat", "tool"}

NextSetters ==
    \/ StartCommand("chat2", Commander)
    \/ StartGetUser("chat2")
    \/ StartInsertUser("chat2", "none")
    \/ StartInsertState("chat2", "none")
    \/ \E s \in SetterSlots, op \in Setters : \E v \in SetterValues[op] :
          SetterCall(s, op, Commander, v)
    \/ \E s \in SetterSlots : SetterGetUser(s)
    \/ \E s \in SetterSlots : SetterUpdateGetUser(s)
    \/ \E s \in SetterSlots, f \in {"none", "update"} : SetterUpdate(s, f)

SpecSetters == InitTasks /\ [][NextSetters]_vars

\* ----------------------------------------------- claims: tasks and the store
InProgress(chat_id) == {i \in 1..Len(tasks.pr) : tasks.pr[i].chat_id = chat_id}

\* C33: at no moment are two invocations of process_reading for the same
\* recipient in progress, and for each recipient the invocations are entered
\* and left in the order in which the readings were produced.
C33_OneInvocationAtATime ==
    /\ \A c \in ChatIds : Cardinality(InProgress(c)) <= 1
    /\ tasks.inorder

\* Reached: the second reading is being processed for a recipient for whom
\* the first one was processed to its end, a delivery included.
SecondReadingInProgress ==
    \E c \in ChatIds :
        /\ InProgress(c) # {}
        /\ tasks.finished[c] = 1
        /\ tasks.started[c] = 2
        /\ c \in DOMAIN alert_states /\ alert_states[c].current_state # "normal"

StartInProgress == \E s \in Slots : tasks.slots[s].op = "start"
SecondInsertFailed ==
    \E i \in 1..Len(tasks.results) :
        tasks.results[i].at = "insert_state" /\ ~tasks.results[i].ok

\* C34: whenever no create_user is between its two INSERTs, a recipient has
\* a users row if and only if it has an alert_states row.
C34_RowsArePaired == ~StartInProgress => DOMAIN users = DOMAIN alert_states

\* What does hold: the rows are paired as long as no second INSERT failed,
\* two /start commands for the same new recipient interleaved included, and
\* no alert_states row is ever without its users row.
RowsPairedUnlessInsertFailed ==
    /\ (~StartInProgress /\ ~SecondInsertFailed) => DOMAIN users = DOMAIN alert_states
    /\ DOMAIN alert_states \subseteq DOMAIN users

\* Reached: two /start commands of one new recipient both found no row; one
\* created both rows, the other failed on its first INSERT.
InterleavedStarts ==
    /\ Len(tasks.results) = 2
    /\ tasks.results[1].chat_id = tasks.results[2].chat_id
    /\ \E i, j \in 1..2 : /\ tasks.results[i].at = "insert_user" /\ ~tasks.results[i].ok
                          /\ tasks.results[j].at = "insert_state" /\ tasks.results[j].ok
    /\ DOMAIN users = DOMAIN alert_states /\ DOMAIN users # {}

\* Reached: a recipient with a users row and no alert_states row, left by a
\* create_user that returned, is visited by the monitoring task.
UserWithoutAlertState ==
    /\ ~StartInProgress
    /\ \E c \in DOMAIN users \ DOMAIN alert_states : tasks.finished[c] >= 1

Invocations == {tasks.pr[i] : i \in 1..Len(tasks.pr)} \cup {tasks.returned}
HasReturned(inv) == inv.pc = "returned"
UserRowFound(inv) == inv.user # <<>>
AlertStateRowFound(inv) == inv.alert_state # <<>>

\* C35 as stated: every invocation that returned has read the recipient and
\* then the AlertState, once each, sent at most once, written at most once,
\* and written only if it sent.
C35_OneReadPair ==
    HasReturned(tasks.returned) =>
        /\ tasks.returned.reads = <<"users", "alert_states">>
        /\ Len(tasks.returned.sends) <= 1
        /\ tasks.returned.writes <= 1
        /\ tasks.returned.writes > 0 => tasks.returned.sends # <<>>

\* C35, amended: every invocation reads the recipient once and, only if the
\* row was found, the AlertState once after it; it sends at most once,
\* writes at most once, and writes only after its message was delivered.
C35_ReadsSendsWrites ==
    \A inv \in Invocations :
        /\ inv.pc \notin {"none", "select_user"} =>
               inv.reads = IF UserRowFound(inv) /\ inv.pc # "select_state"
                           THEN <<"users", "alert_states">> ELSE <<"users">>
        /\ Len(inv.sends) <= 1
        /\ inv.writes <= 1
        /\ (inv.writes > 0 \/ inv.pc = "update") => inv.sends = <<"delivered">>

\* Reached: an invocation that read both rows, delivered and wrote.
ReadSentWrote ==
    /\ HasReturned(tasks.returned)
    /\ tasks.returned.reads = <<"users", "alert_states">>
    /\ tasks.returned.sends = <<"delivered">>
    /\ tasks.returned.writes = 1
    /\ tasks.returned.logged = "none"

\* Reached: the recipient has no row, and the AlertState was not read.
ReadRecipientOnly ==
    /\ HasReturned(tasks.returned)
    /\ tasks.returned.logged = "none"
    /\ tasks.returned.chat_id \notin DOMAIN users
    /\ tasks.returned.reads = <<"users">>

\* C36: an invocation for a chat_id without a users row, or with a users row
\* and no alert_states row, sends nothing, writes nothing, leaves both tables
\* as they were and raises nothing.
C36_AbsentRowsNoOp ==
    \A inv \in Invocations :
        (inv.pc # "none" /\ (inv.chat_id \notin DOMAIN before.users
                              \/ inv.chat_id \notin DOMAIN before.alert_states)) =>
            /\ inv.sends = <<>>
            /\ inv.writes = 0
            /\ inv.raised = "none"
            /\ inv.pc \in {"select_user", "select_state", "returned"}
            /\ Tables = before

\* Reached: process_reading returned for a recipient whose row has no
\* AlertState, with a humidity above the recipient's maximum.
NoAlertStateRow ==
    /\ HasReturned(tasks.returned)
    /\ tasks.returned.chat_id \in DOMAIN users \ DOMAIN alert_states
    /\ tasks.returned.reads = <<"users", "alert_states">>
    /\ tasks.returned.humidity > users[tasks.returned.chat_id].humidity_max
    /\ tasks.returned.logged = "none"

\* Reached: process_reading returned for a chat_id that is not registered.
NotRegistered ==
    /\ HasReturned(tasks.returned)
    /\ tasks.returned.chat_id \notin DOMAIN users
    /\ tasks.returned.humidity > DefaultHumidityMax
    /\ tasks.returned.logged = "none"

\* ------------------------------------------ claims: the Link Reader's state
\* C38: in every state of the Link Reader connection_state.is_connected is
\* true exactly when is_connected() is.
C38_ConnectednessAgrees == reader.connection_state.is_connected <=> IsConnected(reader)

\* What does hold: connection_state.is_connected is never true while the
\* handle is absent or closed.
StateConnectedOnlyWhenOpen == reader.connection_state.is_connected => IsConnected(reader)

\* Reached: a read raised on an open Link; the handle is still open and
\* connection_state says disconnected.
OpenButStateDisconnected ==
    /\ reader_call.op = "read_sensor_data"
    /\ IsConnected(reader)
    /\ ~reader.connection_state.is_connected
    /\ reader.connection_state.reconnect_attempts >= 1

\* ------------------------------------------------- claims: the rate limiter
\* C40: a throttled invocation leaves _rate_limit_state as it was; the state
\* changes only when an invocation is accepted, and then only the entry of
\* its recipient, which becomes the time of the invocation; an invocation
\* of a recipient 3 seconds or more after the recipient's recorded time is
\* accepted, whatever the entries of the other recipients are.
C40_ThrottledDoesNotRefresh ==
    request.op \in Commands =>
        LET c == request.chat_id
            recorded == request.limiter
        IN  /\ response.kind = "wait" => rate_limit_state = recorded
            /\ rate_limit_state # recorded =>
                   /\ response.kind # "wait"
                   /\ DOMAIN rate_limit_state = DOMAIN recorded \cup {c}
                   /\ rate_limit_state[c] = request.at
                   /\ \A u \in DOMAIN recorded \ {c} : rate_limit_state[u] = recorded[u]
            /\ (c \in DOMAIN recorded /\ request.at - recorded[c] >= RateLimitSeconds) =>
                   response.kind # "wait"
            /\ c \notin DOMAIN recorded => response.kind # "wait"

\* Reached: a recipient is accepted exactly 3 seconds after the recorded
\* time, which the throttled invocations in between (the clock moves in
\* steps shorter than 3 seconds) did not move, while the other recipient
\* was accepted less than 3 seconds ago.
AcceptedAfterThrottling ==
    /\ request.op \in Decorated
    /\ response.kind # "wait"
    /\ request.chat_id \in DOMAIN request.limiter
    /\ request.at - request.limiter[request.chat_id] = RateLimitSeconds
    /\ \E u \in DOMAIN request.limiter \ {request.chat_id} :
           request.at - request.limiter[u] < RateLimitSeconds

\* Reached: a throttled invocation 2.5 seconds after the accepted one.
ThrottledLate ==
    /\ response.kind = "wait"
    /\ request.at - rate_limit_state[request.chat_id] = 25

\* ----------------------------------------------- claims: the reading history
\* C37: once the monitoring loop has got a reading from the Link Reader the
\* reading history is not empty, and get_current_reading for a registered
\* recipient does not answer no_data.
C37_ReadingsAreStored ==
    reader.latest_reading # <<>> =>
        /\ sensor_readings # <<>>
        /\ (request.op = "get_current_reading" /\ response.kind = "ok") =>
               response.status # "no_data"

\* Reached: the loop has processed a reading for a registered recipient, who
\* then asks for the current reading and is answered no_data.
NoDataAfterReading ==
    /\ reader.latest_reading # <<>>
    /\ tick.processed # <<>>
    /\ request.op = "get_current_reading"
    /\ request.chat_id \in DOMAIN users
    /\ response.kind = "ok"
    /\ response.status = "no_data"

\* In no state of the run has the history a row.
HistoryStaysEmpty == sensor_readings = <<>>

\* ------------------------------------------------------ claims: the setters
Succeeded(op) ==
    {tasks.results[i].value : i \in {k \in 1..Len(tasks.results) :
                                        tasks.results[k].op = op /\ tasks.results[k].ok}}
SetterInProgress == \E s \in Slots : tasks.slots[s].op \in Setters

\* C39: when a set_humidity_min(v) and a set_humidity_max(w) of a recipient
\* both reported success and both have completed, the stored pair is (v, w).
C39_NoLostUpdate ==
    \A v \in Succeeded("set_humidity_min"), w \in Succeeded("set_humidity_max") :
        ~SetterInProgress => users[Commander] = UserRow(v, w)

\* What does hold: the stored pair is always in range and ordered, and a
\* threshold differs from its default only by a setter that succeeded.
StoredPairIsValid ==
    \A c \in DOMAIN users :
        /\ UserValid(users[c].humidity_min, users[c].humidity_max)
        /\ users[c].humidity_min \in {DefaultHumidityMin} \cup Succeeded("set_humidity_min")
        /\ users[c].humidity_max \in {DefaultHumidityMax} \cup Succeeded("set_humidity_max")

\* Reached: /set_humidity_min 35 from the chat and set_humidity_max(70) from
\* the tool API both answered success, and the stored minimum is the default.
MinimumLost ==
    /\ ~SetterInProgress
    /\ Succeeded("set_humidity_min") = {3500}
    /\ Succeeded("set_humidity_max") = {7000}
    /\ \E i \in 1..Len(tasks.results) :
           tasks.results[i].op = "set_humidity_min" /\ tasks.results[i].slot = "chat"
    /\ users[Commander] = UserRow(DefaultHumidityMin, 7000)

\* Reached: both succeeded and both values are stored.
BothStored ==
    /\ ~SetterInProgress
    /\ Succeeded("set_humidity_min") = {3500}
    /\ Succeeded("set_humidity_max") = {7000}
    /\ users[Commander] = UserRow(3500, 7000)
====
